---- MODULE Spec2Model ----
(***************************************************************************)
(* Model of the ChainAbuse report monitor:                                 *)
(*   - CleanReportMonitor (app/api/monitor-chainabuse/route.ts): the poll  *)
(*     cycle checkForNewReports, its dedup store sentReportHashes, the     *)
(*     previous-cycle snapshot lastReportHashes and the durable file       *)
(*     sent-reports.json;                                                  *)
(*   - the auto monitor (app/api/auto-monitor/route.ts): the timers that   *)
(*     trigger poll cycles;                                                *)
(*   - the pure text functions the cycle uses (recency phrase extraction,  *)
(*     freshness test, amount filter).                                     *)
(* Texts are sequences of one-character strings.                           *)
(***************************************************************************)
EXTENDS Integers, Sequences, FiniteSets, TLC

(***************************************************************************)
(* Bounds of the model                                                     *)
(***************************************************************************)
\* content hashes that pages can show are 1..MaxHash
MaxHash == 3
\* report cards on one fetched page
MaxCards == 2
\* poll cycles started in one behaviour
MaxChecks == 4
\* largest number in a generated recency phrase
MaxN == 160
\* delayed initial checks (10 s timers) pending at once
MaxPending == 2
\* executions of checkForNewReports in flight at once
MaxExecs == 2
\* failed writes of the durable file in one behaviour
MaxWriteFails == 2
\* the cap on sentReportHashes; stands for the 2000 of the eviction step,
\* scaled down so that a few cycles reach it
SentCap == 2
\* the largest set the store specification saves
MaxStored == 3

(***************************************************************************)
(* Texts                                                                   *)
(***************************************************************************)
DigitChar == <<"0", "1", "2", "3", "4", "5", "6", "7", "8", "9">>

DigitSet == {DigitChar[i] : i \in 1..10}

HighDigitSet == {"5", "6", "7", "8", "9"}

\* \s of a JavaScript regular expression (the members that occur in the model)
White == {" ", "\t", "\n"}

UpperAlpha ==
  <<"A", "B", "C", "D", "E", "F", "G", "H", "I", "J", "K", "L", "M",
    "N", "O", "P", "Q", "R", "S", "T", "U", "V", "W", "X", "Y", "Z">>

LowerAlpha ==
  <<"a", "b", "c", "d", "e", "f", "g", "h", "i", "j", "k", "l", "m",
    "n", "o", "p", "q", "r", "s", "t", "u", "v", "w", "x", "y", "z">>

LowerChar(c) ==
  IF \E i \in 1..26 : UpperAlpha[i] = c
  THEN LowerAlpha[CHOOSE i \in 1..26 : UpperAlpha[i] = c]
  ELSE c

\* String.prototype.toLowerCase
ToLowerCase(s) == [i \in 1..Len(s) |-> LowerChar(s[i])]

\* decimal rendering of a non-negative integer (template literal ${n})
RECURSIVE Digits(_)
Digits(n) ==
  IF n < 10 THEN <<DigitChar[n + 1]>>
  ELSE Digits(n \div 10) \o <<DigitChar[(n % 10) + 1]>>

\* t occurs in s at index i
StartsAt(s, i, t) ==
  /\ i >= 1
  /\ i + Len(t) - 1 <= Len(s)
  /\ \A k \in 1..Len(t) : s[i + k - 1] = t[k]

\* String.prototype.includes
Includes(s, t) == \E i \in 1..(Len(s) + 1) : StartsAt(s, i, t)

\* index of the last element of the maximal run of members of set S that
\* starts at index i of s; i - 1 when s[i] is not in S
RunEnd(s, i, S) ==
  IF i > Len(s) \/ s[i] \notin S THEN i - 1
  ELSE CHOOSE j \in i..Len(s) :
         /\ \A k \in i..j : s[k] \in S
         /\ (j = Len(s) \/ s[j + 1] \notin S)

W_second == <<"s", "e", "c", "o", "n", "d">>
W_minute == <<"m", "i", "n", "u", "t", "e">>
W_hour == <<"h", "o", "u", "r">>
W_day == <<"d", "a", "y">>
W_ago == <<"a", "g", "o">>
W_pos == <<"p", "o", "s", "_">>
W_seconds == W_second \o <<"s">>
W_seconds_ago == W_seconds \o <<" ">> \o W_ago
W_minutes_ago == W_minute \o <<"s", " ">> \o W_ago
W_minute_ago == W_minute \o <<" ">> \o W_ago
W_few_seconds_ago == <<"f", "e", "w", " ">> \o W_seconds_ago
W_just_now == <<"j", "u", "s", "t", " ", "n", "o", "w">>

UnitWords == {W_second, W_minute, W_hour, W_day}

(***************************************************************************)
(* createReportSnapshot: the recency phrase                                *)
(*   /(\d+)\s+(seconds?|minutes?|hours?|days?)\s+ago/i                     *)
(***************************************************************************)
\* index of the last character of the match of the pattern that starts at
\* index i of text, 0 when the pattern does not match at i
TimeMatchEnd(text, i) ==
  LET low == ToLowerCase(text)
      d == RunEnd(low, i, DigitSet)
      w == RunEnd(low, d + 1, White)
      units == {u \in UnitWords : StartsAt(low, w + 1, u)}
  IN IF d < i \/ w < d + 1 \/ units = {} THEN 0
     ELSE LET u == CHOOSE x \in units : TRUE
              e0 == w + Len(u)
              e == IF e0 + 1 <= Len(low) /\ low[e0 + 1] = "s" THEN e0 + 1 ELSE e0
              v == RunEnd(low, e + 1, White)
          IN IF v >= e + 1 /\ StartsAt(low, v + 1, W_ago) THEN v + Len(W_ago) ELSE 0

\* timeAgo of a snapshot: the first match in the card's text, else pos_<position>
ExtractTimeAgo(text, position) ==
  LET starts == {i \in 1..Len(text) : TimeMatchEnd(text, i) > 0}
  IN IF starts = {} THEN W_pos \o Digits(position)
     ELSE LET i == CHOOSE x \in starts : \A y \in starts : x <= y
          IN SubSeq(text, i, TimeMatchEnd(text, i))

(***************************************************************************)
(* checkForNewReports: isVeryFresh                                         *)
(***************************************************************************)
\* /[5-9]\d+\s+seconds/ matches somewhere in t
HighSecondsMatch(t) ==
  \E i \in 1..Len(t) :
    /\ t[i] \in HighDigitSet
    /\ \E j \in (i + 1)..Len(t) :
         /\ \A k \in (i + 1)..j : t[k] \in DigitSet
         /\ \E m \in (j + 1)..Len(t) :
              /\ \A k \in (j + 1)..m : t[k] \in White
              /\ StartsAt(t, m + 1, W_seconds)

\* the freshness test that takes any "... ago" for very fresh
IsVeryFresh_ago(timeAgo) == Includes(ToLowerCase(timeAgo), W_ago)

IsVeryFresh(timeAgo) ==
  LET timeAgoText == ToLowerCase(timeAgo)
  IN \/ Includes(timeAgoText, <<"5", " ">> \o W_minutes_ago)
     \/ Includes(timeAgoText, <<"4", " ">> \o W_minutes_ago)
     \/ Includes(timeAgoText, <<"3", " ">> \o W_minutes_ago)
     \/ Includes(timeAgoText, <<"2", " ">> \o W_minutes_ago)
     \/ Includes(timeAgoText, <<"1", " ">> \o W_minute_ago)
     \/ Includes(timeAgoText, <<"0", " ">> \o W_minutes_ago)
     \/ Includes(timeAgoText, W_few_seconds_ago)
     \/ Includes(timeAgoText, W_just_now)
     \/ (Includes(timeAgoText, W_seconds_ago) /\ ~HighSecondsMatch(timeAgoText))

(***************************************************************************)
(* Recency phrases as the listing page prints them                         *)
(***************************************************************************)
\* "<n> <unit> ago", unit word given with or without its plural s
Phrase(n, unitWord) == Digits(n) \o <<" ">> \o unitWord \o <<" ">> \o W_ago

Plural(u) == u \o <<"s">>

UnitForms == UnitWords \cup {Plural(u) : u \in UnitWords}

\* the text of a card around its recency phrase: "Scam " + phrase + "Rep"
W_lead == <<"S", "c", "a", "m", " ">>
W_trail == <<"R", "e", "p">>

(***************************************************************************)
(* isAmountUSDSignificant                                                  *)
(***************************************************************************)
W_usd == <<"u", "s", "d">>
W_amount == <<"a", "m", "o", "u", "n", "t">>
W_lost == <<"l", "o", "s", "t">>

\* the threshold the comments of isAmountUSDSignificant speak of
AmountThreshold_comment == 10 * 1000

\* the threshold of the comparison (the comments around it say $10,000)
AmountThreshold == 1

\* characters of the class [0-9,.\s]
NumberClass == DigitSet \cup {",", "."} \cup White

\* end of the match of /amount\s+lost/i that starts at index i of s, else 0
AmountLostEnd(s, i) ==
  LET low == ToLowerCase(s)
      w == RunEnd(low, i + Len(W_amount), White)
  IN IF StartsAt(low, i, W_amount) /\ w >= i + Len(W_amount)
        /\ StartsAt(low, w + 1, W_lost)
     THEN w + Len(W_lost) ELSE 0

\* s.replace(/amount\s+lost/gi, '')
RECURSIVE StripAmountLost(_)
StripAmountLost(s) ==
  LET hits == {i \in 1..Len(s) : AmountLostEnd(s, i) > 0}
  IN IF hits = {} THEN s
     ELSE LET i == CHOOSE x \in hits : \A y \in hits : x <= y
          IN SubSeq(s, 1, i - 1)
               \o StripAmountLost(SubSeq(s, AmountLostEnd(s, i) + 1, Len(s)))

\* s.replace(/<word>/gi, '') for a literal lower-case word
RECURSIVE StripWord(_, _)
StripWord(s, word) ==
  LET low == ToLowerCase(s)
      hits == {i \in 1..Len(s) : StartsAt(low, i, word)}
  IN IF hits = {} THEN s
     ELSE LET i == CHOOSE x \in hits : \A y \in hits : x <= y
          IN SubSeq(s, 1, i - 1)
               \o StripWord(SubSeq(s, i + Len(word), Len(s)), word)

\* s.replace(/c/g, '') for the characters of set S
StripChars(s, S) == SelectSeq(s, LAMBDA c : c \notin S)

\* String.prototype.trim
Trim(s) ==
  LET keep == {i \in 1..Len(s) : s[i] \notin White}
  IN IF keep = {} THEN <<>>
     ELSE SubSeq(s, CHOOSE x \in keep : \A y \in keep : x <= y,
                    CHOOSE x \in keep : \A y \in keep : x >= y)

\* cleanAmount.match(/([0-9,.\s]+)/): the first maximal run, <<>> and FALSE
\* when there is none
NumberMatch(s) ==
  LET hits == {i \in 1..Len(s) : s[i] \in NumberClass}
  IN IF hits = {} THEN [found |-> FALSE, text |-> <<>>]
     ELSE LET i == CHOOSE x \in hits : \A y \in hits : x <= y
          IN [found |-> TRUE, text |-> SubSeq(s, i, RunEnd(s, i, NumberClass))]

DigitValue(c) == (CHOOSE i \in 1..10 : DigitChar[i] = c) - 1

RECURSIVE DecimalValue(_)
DecimalValue(ds) ==
  IF ds = <<>> THEN 0
  ELSE 10 * DecimalValue(SubSeq(ds, 1, Len(ds) - 1)) + DigitValue(ds[Len(ds)])

\* parseFloat of a text of digits and dots: the longest prefix
\* digits [. digits] is read; NaN when it holds no digit.  The value is
\* given by its integer part (whole) and whether a fraction part follows.
ParseFloat(ns) ==
  LET ie == RunEnd(ns, 1, DigitSet)
      fe == IF ie + 1 <= Len(ns) /\ ns[ie + 1] = "."
            THEN RunEnd(ns, ie + 2, DigitSet) ELSE ie
  IN [nan |-> (ie = 0 /\ fe <= ie + 1),
      whole |-> DecimalValue(SubSeq(ns, 1, ie)),
      frac |-> SubSeq(ns, ie + 2, fe)]

IsAmountUSDSignificant(amountLostString) ==
  IF amountLostString = <<>> THEN FALSE
  ELSE IF ~Includes(ToLowerCase(amountLostString), W_usd)
          /\ ~Includes(amountLostString, <<"$">>) THEN FALSE
  ELSE LET cleanAmount ==
             Trim(StripChars(StripWord(StripAmountLost(amountLostString), W_usd),
                             {"$", ":"}))
           numberMatch == NumberMatch(cleanAmount)
       IN IF ~numberMatch.found THEN FALSE
          ELSE LET numberString == Trim(StripChars(numberMatch.text, {","} \cup White))
                   amount == ParseFloat(numberString)
               IN IF amount.nan THEN FALSE
                  ELSE amount.whole >= AmountThreshold

(***************************************************************************)
(* Fingerprints: cleanReportContent, createContentHash and the hash of     *)
(* createReportSnapshot, on texts                                          *)
(***************************************************************************)
\* the least member of a non-empty set of numbers
Least(S) == CHOOSE x \in S : \A y \in S : x <= y

\* a lower-case word occurs in s at index i, whatever the case (flag i)
StartsAtCI(s, i, word) ==
  /\ i >= 1
  /\ i + Len(word) - 1 <= Len(s)
  /\ \A k \in 1..Len(word) : LowerChar(s[i + k - 1]) = word[k]

\* a scan followed by the scan Rest, which starts where the first ended
ScanThen(left, Rest(_)) ==
  [out |-> left.out \o Rest(left.next).out, next |-> Rest(left.next).next]

\* the replacement of the matches that a scan from index p finds in
\* s[a..b], and the index at which the scan goes on; ends[i] is the index
\* of the last character of the match that starts at i, less than i for
\* none. The range is halved so that the evaluation stays shallow.
RECURSIVE Scan(_, _, _, _, _, _)
Scan(s, ends, repl, a, b, p) ==
  IF a = b
  THEN IF p > a THEN [out |-> <<>>, next |-> p]
       ELSE IF ends[a] >= a THEN [out |-> repl, next |-> ends[a] + 1]
       ELSE [out |-> <<s[a]>>, next |-> a + 1]
  ELSE ScanThen(Scan(s, ends, repl, a, (a + b) \div 2, p),
                LAMBDA q : Scan(s, ends, repl, (a + b) \div 2 + 1, b, q))

\* s.replace(/pattern/g, repl) for a constant repl: MatchEnd(s, i) is the
\* index of the last character of the match that starts at index i of s,
\* less than i when the pattern does not match there
ReplaceAll(s, MatchEnd(_, _), repl) ==
  IF s = <<>> THEN <<>>
  ELSE Scan(s, [i \in 1..Len(s) |-> MatchEnd(s, i)], repl, 1, Len(s), 1).out

\* index of the last element of the maximal run of characters outside set S
\* that starts at index i of s; i - 1 when there is none
RunEndNot(s, i, S) ==
  IF i > Len(s) \/ s[i] \in S THEN i - 1
  ELSE CHOOSE j \in i..Len(s) :
         /\ \A k \in i..j : s[k] \notin S
         /\ (j = Len(s) \/ s[j + 1] \in S)

\* s without its leading and its trailing run of members of S
TrimOf(s, S) ==
  LET keep == {i \in 1..Len(s) : s[i] \notin S}
  IN IF keep = {} THEN <<>>
     ELSE SubSeq(s, Least(keep), CHOOSE x \in keep : \A y \in keep : x >= y)

LetterSet == {LowerAlpha[i] : i \in 1..26} \cup {UpperAlpha[i] : i \in 1..26}

\* \w of a regular expression
WordChar == LetterSet \cup DigitSet \cup {"_"}

\* \d{n} at index i of s
DigitsAt(s, i, n) == i + n - 1 <= Len(s) /\ \A k \in i..(i + n - 1) : s[k] \in DigitSet

\* /\d{4}-\d{2}-\d{2}/ matches at index i of s
DateAt(s, i) ==
  /\ DigitsAt(s, i, 4) /\ StartsAt(s, i + 4, <<"-">>)
  /\ DigitsAt(s, i + 5, 2) /\ StartsAt(s, i + 7, <<"-">>)
  /\ DigitsAt(s, i + 8, 2)

\* /\d{4}-\d{2}-\d{2}T\d{2}:\d{2}/ matches at index i of s
DateTimeAt(s, i) ==
  /\ DateAt(s, i) /\ StartsAt(s, i + 10, <<"T">>)
  /\ DigitsAt(s, i + 11, 2) /\ StartsAt(s, i + 13, <<":">>)
  /\ DigitsAt(s, i + 14, 2)

\* the exact categories, in the order of both category functions
C_Phishing_Scam == <<"P", "h", "i", "s", "h", "i", "n", "g", " ", "S", "c", "a", "m">>
C_Rug_Pull_Scam == <<"R", "u", "g", " ", "P", "u", "l", "l", " ", "S", "c", "a", "m">>
C_Other_Blackmail_Scam == <<"O", "t", "h", "e", "r", " ", "B", "l", "a", "c", "k", "m", "a", "i", "l", " ", "S", "c", "a", "m">>
C_Sextortion_Scam == <<"S", "e", "x", "t", "o", "r", "t", "i", "o", "n", " ", "S", "c", "a", "m">>
C_Ransomware == <<"R", "a", "n", "s", "o", "m", "w", "a", "r", "e">>
C_Impersonation_Scam == <<"I", "m", "p", "e", "r", "s", "o", "n", "a", "t", "i", "o", "n", " ", "S", "c", "a", "m">>
C_Fake_Returns_Scam == <<"F", "a", "k", "e", " ", "R", "e", "t", "u", "r", "n", "s", " ", "S", "c", "a", "m">>
C_Hack_Other == <<"H", "a", "c", "k", " ", "-", " ", "O", "t", "h", "e", "r">>
C_NFT_Airdrop_Scam == <<"N", "F", "T", " ", "A", "i", "r", "d", "r", "o", "p", " ", "S", "c", "a", "m">>
C_Fake_Project_Scam == <<"F", "a", "k", "e", " ", "P", "r", "o", "j", "e", "c", "t", " ", "S", "c", "a", "m">>
C_Romance_Scam == <<"R", "o", "m", "a", "n", "c", "e", " ", "S", "c", "a", "m">>
C_Pigbutchering_Scam == <<"P", "i", "g", "b", "u", "t", "c", "h", "e", "r", "i", "n", "g", " ", "S", "c", "a", "m">>
C_Contract_Exploit_Scam == <<"C", "o", "n", "t", "r", "a", "c", "t", " ", "E", "x", "p", "l", "o", "i", "t", " ", "S", "c", "a", "m">>
C_Donation_Impersonation_Scam == <<"D", "o", "n", "a", "t", "i", "o", "n", " ", "I", "m", "p", "e", "r", "s", "o", "n", "a", "t", "i", "o", "n", " ", "S", "c", "a", "m">>
C_Other == <<"O", "t", "h", "e", "r">>

ExactCategories ==
  <<C_Phishing_Scam, C_Rug_Pull_Scam, C_Other_Blackmail_Scam,
    C_Sextortion_Scam, C_Ransomware, C_Impersonation_Scam,
    C_Fake_Returns_Scam, C_Hack_Other, C_NFT_Airdrop_Scam,
    C_Fake_Project_Scam, C_Romance_Scam, C_Pigbutchering_Scam,
    C_Contract_Exploit_Scam, C_Donation_Impersonation_Scam, C_Other>>

\* detectScamCategory: the keywords of each category, in the order of the
\* exact categories (Other has none)
CategoryKeywords ==
  <<{<<"p", "h", "i", "s", "h", "i", "n", "g">>, <<"p", "h", "i", "s", "h">>, <<"f", "a", "k", "e", " ", "w", "e", "b", "s", "i", "t", "e">>, <<"f", "a", "k", "e", " ", "s", "i", "t", "e">>, <<"c", "r", "e", "d", "e", "n", "t", "i", "a", "l">>},
    {<<"r", "u", "g", " ", "p", "u", "l", "l">>, <<"r", "u", "g", "p", "u", "l", "l">>, <<"l", "i", "q", "u", "i", "d", "i", "t", "y">>},
    {<<"b", "l", "a", "c", "k", "m", "a", "i", "l">>, <<"t", "h", "r", "e", "a", "t", "e", "n">>, <<"d", "e", "m", "a", "n", "d", " ", "p", "a", "y", "m", "e", "n", "t">>},
    {<<"s", "e", "x", "t", "o", "r", "t", "i", "o", "n">>, <<"w", "e", "b", "c", "a", "m">>, <<"i", "n", "t", "i", "m", "a", "t", "e">>, <<"n", "u", "d", "e">>},
    {<<"r", "a", "n", "s", "o", "m", "w", "a", "r", "e">>, <<"e", "n", "c", "r", "y", "p", "t", "e", "d">>, <<"d", "e", "c", "r", "y", "p", "t">>, <<"l", "o", "c", "k", "e", "d", " ", "f", "i", "l", "e", "s">>},
    {<<"i", "m", "p", "e", "r", "s", "o", "n", "a", "t">>, <<"p", "r", "e", "t", "e", "n", "d">>, <<"f", "a", "k", "e", " ", "i", "d", "e", "n", "t", "i", "t", "y">>, <<"p", "o", "s", "i", "n", "g", " ", "a", "s">>},
    {<<"f", "a", "k", "e", " ", "r", "e", "t", "u", "r", "n">>, <<"g", "u", "a", "r", "a", "n", "t", "e", "e", "d", " ", "r", "e", "t", "u", "r", "n">>, <<"h", "i", "g", "h", " ", "r", "e", "t", "u", "r", "n">>},
    {<<"h", "a", "c", "k">>, <<"h", "a", "c", "k", "e", "d">>, <<"b", "r", "e", "a", "c", "h">>, <<"c", "o", "m", "p", "r", "o", "m", "i", "s", "e", "d">>},
    {<<"n", "f", "t">>, <<"a", "i", "r", "d", "r", "o", "p">>, <<"f", "r", "e", "e", " ", "n", "f", "t">>, <<"m", "i", "n", "t">>},
    {<<"f", "a", "k", "e", " ", "p", "r", "o", "j", "e", "c", "t">>, <<"f", "a", "k", "e", " ", "i", "c", "o">>, <<"f", "a", "k", "e", " ", "t", "o", "k", "e", "n">>},
    {<<"r", "o", "m", "a", "n", "c", "e">>, <<"d", "a", "t", "i", "n", "g">>, <<"r", "e", "l", "a", "t", "i", "o", "n", "s", "h", "i", "p">>, <<"l", "o", "v", "e">>},
    {<<"p", "i", "g", "b", "u", "t", "c", "h", "e", "r", "i", "n", "g">>, <<"p", "i", "g", " ", "b", "u", "t", "c", "h", "e", "r", "i", "n", "g">>, <<"i", "n", "v", "e", "s", "t", "m", "e", "n", "t", " ", "f", "r", "a", "u", "d">>},
    {<<"c", "o", "n", "t", "r", "a", "c", "t", " ", "e", "x", "p", "l", "o", "i", "t">>, <<"s", "m", "a", "r", "t", " ", "c", "o", "n", "t", "r", "a", "c", "t">>, <<"d", "e", "f", "i", " ", "e", "x", "p", "l", "o", "i", "t">>},
    {<<"d", "o", "n", "a", "t", "i", "o", "n">>, <<"c", "h", "a", "r", "i", "t", "y">>, <<"f", "u", "n", "d", "r", "a", "i", "s", "i", "n", "g">>},
    {}>>

\* detectScamCategory
DetectScamCategory(content, rawContent) ==
  LET text == ToLowerCase(content \o <<" ">> \o rawContent)
      hits == {c \in 1..Len(ExactCategories) :
                 \E keyword \in CategoryKeywords[c] : Includes(text, keyword)}
  IN IF hits = {} THEN C_Other ELSE ExactCategories[Least(hits)]

\* normalizeScamCategory: the substring rules, in order
NormalizeRules ==
  <<<<<<"p", "h", "i", "s", "h">>, C_Phishing_Scam>>,
    <<<<"r", "u", "g", " ", "p", "u", "l", "l">>, C_Rug_Pull_Scam>>,
    <<<<"b", "l", "a", "c", "k", "m", "a", "i", "l">>, C_Other_Blackmail_Scam>>,
    <<<<"s", "e", "x", "t", "o", "r", "t", "i", "o", "n">>, C_Sextortion_Scam>>,
    <<<<"r", "a", "n", "s", "o", "m", "w", "a", "r", "e">>, C_Ransomware>>,
    <<<<"i", "m", "p", "e", "r", "s", "o", "n", "a", "t">>, C_Impersonation_Scam>>,
    <<<<"f", "a", "k", "e", " ", "r", "e", "t", "u", "r", "n">>, C_Fake_Returns_Scam>>,
    <<<<"h", "a", "c", "k">>, C_Hack_Other>>,
    <<<<"n", "f", "t">>, C_NFT_Airdrop_Scam>>,
    <<<<"a", "i", "r", "d", "r", "o", "p">>, C_NFT_Airdrop_Scam>>,
    <<<<"f", "a", "k", "e", " ", "p", "r", "o", "j", "e", "c", "t">>, C_Fake_Project_Scam>>,
    <<<<"r", "o", "m", "a", "n", "c", "e">>, C_Romance_Scam>>,
    <<<<"p", "i", "g", "b", "u", "t", "c", "h", "e", "r">>, C_Pigbutchering_Scam>>,
    <<<<"c", "o", "n", "t", "r", "a", "c", "t">>, C_Contract_Exploit_Scam>>,
    <<<<"d", "o", "n", "a", "t", "i", "o", "n">>, C_Donation_Impersonation_Scam>>>>

\* normalizeScamCategory
NormalizeScamCategory(category) ==
  LET normalized == Trim(ToLowerCase(category))
      exact == {c \in 1..Len(ExactCategories) : normalized = ToLowerCase(ExactCategories[c])}
      rules == {r \in 1..Len(NormalizeRules) : Includes(normalized, NormalizeRules[r][1])}
  IN IF exact # {} THEN ExactCategories[Least(exact)]
     ELSE IF rules # {} THEN NormalizeRules[Least(rules)][2]
     ELSE C_Other

\* cleanReportContent, STEP 2: the words of the first category pattern
CategoryWords ==
  {<<"s", "c", "a", "m">>, <<"p", "h", "i", "s", "h", "i", "n", "g">>,
   <<"f", "r", "a", "u", "d">>, <<"t", "h", "e", "f", "t">>,
   <<"h", "a", "c", "k">>, <<"a", "t", "t", "a", "c", "k">>,
   <<"r", "a", "n", "s", "o", "m", "w", "a", "r", "e">>,
   <<"b", "l", "a", "c", "k", "m", "a", "i", "l">>,
   <<"s", "e", "x", "t", "o", "r", "t", "i", "o", "n">>,
   <<"r", "o", "m", "a", "n", "c", "e">>,
   <<"i", "n", "v", "e", "s", "t", "m", "e", "n", "t">>,
   <<"t", "e", "c", "h", " ", "s", "u", "p", "p", "o", "r", "t">>,
   <<"f", "a", "k", "e">>,
   <<"i", "m", "p", "e", "r", "s", "o", "n", "a", "t", "i", "o", "n">>,
   <<"r", "u", "g", " ", "p", "u", "l", "l">>, <<"n", "f", "t">>,
   <<"a", "i", "r", "d", "r", "o", "p">>,
   <<"c", "o", "n", "t", "r", "a", "c", "t", " ", "e", "x", "p", "l", "o", "i", "t">>,
   <<"d", "o", "n", "a", "t", "i", "o", "n">>}

\* the words a category may not begin with
LeadingWords ==
  {<<"t", "h", "e">>, <<"t", "h", "i", "s">>, <<"a">>, <<"a", "n">>,
   <<"i">>, <<"y", "o", "u">>, <<"w", "e">>, <<"t", "h", "e", "y">>,
   <<"i", "t">>, <<"m", "y">>, <<"o", "u", "r">>, <<"y", "o", "u", "r">>}

W_http == <<"h", "t", "t", "p">>
W_submitted == <<"s", "u", "b", "m", "i", "t", "t", "e", "d">>
W_submitted_by == <<"s", "u", "b", "m", "i", "t", "t", "e", "d", " ", "b", "y">>
W_threat_detected == <<"t", "h", "r", "e", "a", "t", " ", "d", "e", "t", "e", "c", "t", "e", "d">>
W_amount_lost == <<"a", "m", "o", "u", "n", "t", " ", "l", "o", "s", "t">>
W_unknown == <<"u", "n", "k", "n", "o", "w", "n">>
W_TIME_AGO == <<"T", "I", "M", "E", "_", "A", "G", "O">>

\* the beginnings that rule a line out in STEP 7
RuledOutStarts ==
  {<<"s", "u", "b", "m", "i", "t", "t", "e", "d", " ", "b", "y">>,
   <<"r", "e", "p", "o", "r", "t", "e", "d">>, <<"v", "o", "t", "e">>,
   <<"c", "o", "m", "m", "e", "n", "t", "s">>, <<"o", "t", "h", "e", "r">>,
   <<"c", "a", "t", "e", "g", "o", "r", "y">>}

\* index of the first "." of s, 0 when there is none
FirstDot(s) ==
  LET dots == {i \in 1..Len(s) : s[i] = "."}
  IN IF dots = {} THEN 0 ELSE Least(dots)

\* group 2 of both category patterns, \.\s*(.*): what follows the dot and
\* its white space, up to the end of the line
RestOfLine(s, dot) ==
  LET from == RunEnd(s, dot + 1, White) + 1
      ends == {i \in from..Len(s) : s[i] = "\n"}
  IN SubSeq(s, from, IF ends = {} THEN Len(s) ELSE Least(ends) - 1)

\* /^([^.]+?(?:Scam|Phishing|...)[^.]*)\.\s*(.*)/i matches s: one of the
\* words lies in the first sentence, after at least one character
KeywordPattern(s) ==
  LET dot == FirstDot(s)
  IN \E word \in CategoryWords : \E i \in 2..(dot - 1) :
       StartsAtCI(s, i, word) /\ i + Len(word) - 1 < dot

\* /^([^.]{5,100})\.\s*(.*)/ matches s
SentencePattern(s) == FirstDot(s) - 1 \in 5..100

\* the conditions on potentialCategory
AcceptableCategory(potentialCategory) ==
  /\ Len(potentialCategory) <= 100
  /\ Len(potentialCategory) >= 5
  /\ ~\E word \in LeadingWords :
        /\ StartsAtCI(potentialCategory, 1, word)
        /\ Len(potentialCategory) > Len(word)
        /\ potentialCategory[Len(word) + 1] \in White
  /\ ~Includes(potentialCategory, W_http)
  /\ ~Includes(potentialCategory, <<"@">>)
  /\ ~\E i \in 1..Len(potentialCategory) : DateAt(potentialCategory, i)
  /\ ~Includes(ToLowerCase(potentialCategory), W_submitted_by)
  /\ ~Includes(ToLowerCase(potentialCategory), W_threat_detected)

\* STEP 2: the category and the content that goes on to the later steps.
\* Both patterns capture the first sentence, so the loop over them accepts
\* or rejects the same potentialCategory.
ExtractCategory(content, rawContent) ==
  LET dot == FirstDot(content)
      matched == KeywordPattern(content) \/ SentencePattern(content)
      potentialCategory == Trim(SubSeq(content, 1, dot - 1))
      category == IF matched /\ AcceptableCategory(potentialCategory)
                  THEN potentialCategory ELSE <<>>
  IN IF category = <<>> \/ Len(category) < 5
     THEN [category |-> DetectScamCategory(content, rawContent), restContent |-> content]
     ELSE [category |-> NormalizeScamCategory(category),
           restContent |-> Trim(RestOfLine(content, dot))]

\* (?:\s+\d+\s+(?:seconds?|minutes?|hours?|days?)\s+ago|$) matches after
\* index e of s
AuthorTail(s, e) ==
  \/ e = Len(s)
  \/ LET w == RunEnd(s, e + 1, White)
     IN w >= e + 1 /\ TimeMatchEnd(s, w + 1) > 0

\* /Submitted by\s+([^.\d\n]+?)(?:...)/i from index i of s: the matches as
\* <<k, e>>, the white space ending at k and group 1 being s[k+1..e]
AuthorMatches(s, i) ==
  LET a == i + Len(W_submitted_by)
  IN IF ~StartsAtCI(s, i, W_submitted_by) THEN {}
     ELSE {m \in (a..RunEnd(s, a, White)) \X (1..Len(s)) :
             /\ m[2] > m[1]
             /\ \A j \in (m[1] + 1)..m[2] : s[j] \notin DigitSet \cup {".", "\n"}
             /\ AuthorTail(s, m[2])}

\* group 1 of the first author pattern: the leftmost match, its white space
\* greedy and its group lazy; found FALSE when the pattern does not match
SubmittedByAuthor(s) ==
  LET starts == {i \in 1..Len(s) : AuthorMatches(s, i) # {}}
  IN IF starts = {} THEN [found |-> FALSE, text |-> <<>>]
     ELSE LET ms == AuthorMatches(s, Least(starts))
              m == CHOOSE x \in ms :
                     \A y \in ms : x[1] > y[1] \/ (x[1] = y[1] /\ x[2] <= y[2])
          IN [found |-> TRUE, text |-> SubSeq(s, m[1] + 1, m[2])]

\* group 1 of /^([A-Za-z][A-Za-z0-9_]*)\s+\d+\s+(seconds?|...)\s+ago/i
LeadingAuthor(s) ==
  LET e == RunEnd(s, 1, WordChar)
      w == RunEnd(s, e + 1, White)
  IN IF /\ e >= 1 /\ s[1] \in LetterSet
        /\ w >= e + 1 /\ TimeMatchEnd(s, w + 1) > 0
     THEN [found |-> TRUE, text |-> SubSeq(s, 1, e)]
     ELSE [found |-> FALSE, text |-> <<>>]

\* STEP 3: the first of the two matches that was found, trimmed
FirstAuthor(submitted, leading) ==
  IF submitted.found THEN Trim(submitted.text)
  ELSE IF leading.found THEN Trim(leading.text)
  ELSE W_unknown

\* STEP 3: the author
ExtractAuthor(content) ==
  FirstAuthor(SubmittedByAuthor(content), LeadingAuthor(content))

\* /Submitted by\s+[^.\n]*(?:\d+\s+(?:...)\s+ago)?[.\n]*/gi at index i:
\* the rest of the sentence and the dots and line ends after it
SubmittedByEnd(s, i) ==
  LET a == i + Len(W_submitted_by)
      w == RunEnd(s, a, White)
  IN IF ~StartsAtCI(s, i, W_submitted_by) \/ w < a THEN i - 1
     ELSE RunEnd(s, RunEndNot(s, w + 1, {".", "\n"}) + 1, {".", "\n"})

\* /\s*\d+\s+(?:seconds?|minutes?|hours?|days?)\s+ago\s*/gi at index i
SpacedTimeEnd(s, i) ==
  IF s[i] \notin White \cup DigitSet THEN i - 1
  ELSE IF TimeMatchEnd(s, RunEnd(s, i, White) + 1) = 0 THEN i - 1
  ELSE RunEnd(s, TimeMatchEnd(s, RunEnd(s, i, White) + 1) + 1, White)

\* /\s+/g at index i
WhiteEnd(s, i) == RunEnd(s, i, White)

\* the end of cleaning: .replace(/\s+/g, ' ')
\* .replace(/^[.\s]+|[.\s]+$/g, '').trim()
Tidy(s) == Trim(TrimOf(ReplaceAll(s, WhiteEnd, <<" ">>), White \cup {"."}))

\* STEP 6 on the texts of TextClass. Of its 54 replacements these act on
\* such texts: the removal of "Submitted by ..." and of the recency phrases,
\* and the end of cleaning. The others need what no text of the class has:
\* an upper-case letter right after a lower-case one or after . ! ?, a
\* category word at the very beginning of the content, one of Domain,
\* Address, Reported, Vote, Comment, Other:, "classified as", "Amount lost",
\* "Threat detected", "at " before a date, http, or a partner's name, joined
\* to Submitted without white space, a word of 20 or more letters and
\* digits, a dot followed by letters, or two dots in a row; the removal of
\* one final dot is part of what the end of cleaning removes.
CleanStep6(content) ==
  Tidy(ReplaceAll(ReplaceAll(content, SubmittedByEnd, <<>>), SpacedTimeEnd, <<" ">>))

\* rawContent.split(/[\n.]/): the pieces of s between the members of S
RECURSIVE Split(_, _)
Split(s, S) ==
  LET cuts == {i \in 1..Len(s) : s[i] \in S}
  IN IF cuts = {} THEN <<s>>
     ELSE <<SubSeq(s, 1, Least(cuts) - 1)>>
            \o Split(SubSeq(s, Least(cuts) + 1, Len(s)), S)

\* STEP 7: the tests that rule a line out (a line holds no dot, so the last
\* test of the code, for a line ending in a domain suffix, never applies)
RuledOut(line) ==
  \/ \E word \in RuledOutStarts : StartsAtCI(line, 1, word)
  \/ StartsAtCI(line, 1, <<"a", "t", " ">>) /\ DigitsAt(line, 4, 4)
  \/ TimeMatchEnd(line, 1) > 0
  \/ StartsAtCI(line, 1, W_http \o <<":", "/", "/">>)
  \/ StartsAtCI(line, 1, W_http \o <<"s", ":", "/", "/">>)
  \/ \E i \in 1..Len(line) : DateTimeAt(line, i)
  \/ StartsAtCI(line, 1, W_threat_detected)
  \/ StartsAtCI(line, 1, W_amount_lost)

\* STEP 7: a clean content under 20 characters gives way to the first line
\* of the raw text that is longer than 10 characters and not ruled out
FallbackContent(cleanContent, rawContent) ==
  LET pieces == Split(rawContent, {"\n", "."})
      lines == SelectSeq([k \in 1..Len(pieces) |-> Trim(pieces[k])],
                         LAMBDA line : Len(line) > 10)
      good == {k \in 1..Len(lines) : ~RuledOut(lines[k])}
  IN IF Len(cleanContent) >= 20 \/ good = {} THEN cleanContent
     ELSE Trim(lines[Least(good)])

\* .replace(/([a-z])([A-Z])/g, '$1 $2')
RECURSIVE SplitCamel(_)
SplitCamel(s) ==
  LET lower == {LowerAlpha[i] : i \in 1..26}
      upper == {UpperAlpha[i] : i \in 1..26}
      hits == {i \in 1..(Len(s) - 1) : s[i] \in lower /\ s[i + 1] \in upper}
  IN IF hits = {} THEN s
     ELSE SubSeq(s, 1, Least(hits)) \o <<" ">>
            \o <<s[Least(hits) + 1]>>
            \o SplitCamel(SubSeq(s, Least(hits) + 2, Len(s)))

\* \b lies between index i and index i + 1 of s
BoundaryAfter(s, i) ==
  (i >= 1 /\ i <= Len(s) /\ s[i] \in WordChar)
    # (i + 1 >= 1 /\ i + 1 <= Len(s) /\ s[i + 1] \in WordChar)

\* .replace(/\bsubmitted$/gi, '')
DropLastSubmitted(s) ==
  LET i == Len(s) - Len(W_submitted) + 1
  IN IF StartsAtCI(s, i, W_submitted) /\ BoundaryAfter(s, i - 1)
     THEN SubSeq(s, 1, i - 1) ELSE s

\* .replace(/^submitted\b/gi, '')
DropFirstSubmitted(s) ==
  IF StartsAtCI(s, 1, W_submitted) /\ BoundaryAfter(s, Len(W_submitted))
  THEN SubSeq(s, Len(W_submitted) + 1, Len(s)) ELSE s

\* /\s+submitted\s+/gi at index i: the white space before the word is the
\* whole run only when the match starts at the run's beginning, which is
\* where the leftmost match starts
SpacedSubmittedEnd(s, i) ==
  LET w == RunEnd(s, i, White)
      e == w + Len(W_submitted)
  IN IF w >= i /\ StartsAtCI(s, w + 1, W_submitted) /\ RunEnd(s, e + 1, White) > e
     THEN RunEnd(s, e + 1, White) ELSE i - 1

\* STEP 8 on the texts of TextClass: the split of joined words, the three
\* replacements of "submitted" (flag i: the three of "Submitted" after them
\* are the same patterns and find nothing left), and the end of cleaning.
\* The others need Reported, Domain or Address, a word of 25 or more
\* letters and digits, 0x, or a dot followed by letters.
CleanStep8(cleanContent) ==
  Tidy(ReplaceAll(DropFirstSubmitted(DropLastSubmitted(SplitCamel(cleanContent))),
                  SpacedSubmittedEnd, <<" ">>))

\* cleanReportContent after STEP 2: the fields that createReportSnapshot
\* uses, and the category
CleanAfterSplit(split, rawContent) ==
  [cleanContent |-> CleanStep8(FallbackContent(CleanStep6(split.restContent), rawContent)),
   author |-> ExtractAuthor(split.restContent),
   category |-> split.category]

\* cleanReportContent. (The text about law enforcement partners that the
\* function cuts first occurs in no text of TextClass.)
CleanReportContent(rawContent) ==
  CleanAfterSplit(ExtractCategory(rawContent, rawContent), rawContent)

\* /\d+\s+(seconds?|minutes?|hours?|days?)\s+ago/gi at index i
TimeEnd(s, i) ==
  IF s[i] \notin DigitSet \/ TimeMatchEnd(s, i) = 0 THEN i - 1
  ELSE TimeMatchEnd(s, i)

\* createContentHash, the text that is hashed: recency phrases become
\* TIME_AGO, white space runs one space, and the ends are trimmed. (The
\* five replacements in between need Reported, Domain or "Submitted by",
\* which no cleaned text of TextClass holds.)
CleanText(text) ==
  Trim(ReplaceAll(ReplaceAll(text, TimeEnd, W_TIME_AGO), WhiteEnd, <<" ">>))

\* String.prototype.charCodeAt for the characters of the model
CharCode(c) ==
  IF c \in DigitSet THEN 47 + CHOOSE i \in 1..10 : DigitChar[i] = c
  ELSE IF \E i \in 1..26 : UpperAlpha[i] = c
       THEN 64 + CHOOSE i \in 1..26 : UpperAlpha[i] = c
  ELSE IF \E i \in 1..26 : LowerAlpha[i] = c
       THEN 96 + CHOOSE i \in 1..26 : LowerAlpha[i] = c
  ELSE CASE c = " " -> 32 [] c = "." -> 46 [] c = "_" -> 95 [] c = "-" -> 45
         [] c = "\n" -> 10 [] c = "\t" -> 9

\* a 32-bit word as its two 16-bit halves
Half == 65536

\* hash = ((hash << 5) - hash) + char; hash = hash & hash: 31 * hash + char
\* in two's complement, 32 bits wide
HashStep(hash, char) ==
  LET lo == 31 * hash.lo + char
  IN [hi |-> (31 * hash.hi + lo \div Half) % Half, lo |-> lo % Half]

\* a part of the loop followed by the part Rest (the look at the value of
\* the first part has it computed before the rest begins)
HashThen(first, Rest(_)) == IF first.hi < Half THEN Rest(first) ELSE first

\* the loop of createContentHash over cleanText[a..b], from the value hash
\* (the range is halved so that the evaluation stays shallow)
RECURSIVE HashLoop(_, _, _, _)
HashLoop(hash, cleanText, a, b) ==
  IF a > b THEN hash
  ELSE IF a = b THEN HashStep(hash, CharCode(cleanText[a]))
  ELSE HashThen(HashLoop(hash, cleanText, a, (a + b) \div 2),
                LAMBDA h : HashLoop(h, cleanText, (a + b) \div 2 + 1, b))

\* Math.abs of a 32-bit word read as a signed number
MathAbs(hash) ==
  IF hash.hi < Half \div 2 THEN hash
  ELSE [hi |-> (Half - 1 - hash.hi + (IF hash.lo = 0 THEN 1 ELSE 0)) % Half,
        lo |-> (Half - hash.lo) % Half]

HexChar == DigitChar \o <<"a", "b", "c", "d", "e", "f">>

\* n.toString(16)
RECURSIVE Hex(_)
Hex(n) ==
  IF n < 16 THEN <<HexChar[n + 1]>>
  ELSE Hex(n \div 16) \o <<HexChar[(n % 16) + 1]>>

\* the four hexadecimal digits of a 16-bit half
Hex4(n) ==
  <<HexChar[(n \div 4096) + 1], HexChar[((n \div 256) % 16) + 1],
    HexChar[((n \div 16) % 16) + 1], HexChar[(n % 16) + 1]>>

\* createContentHash after the cleaning: the loop, Math.abs and toString(16)
HashOf(cleanText) ==
  LET hash == MathAbs(HashLoop([hi |-> 0, lo |-> 0], cleanText, 1, Len(cleanText)))
  IN IF hash.hi = 0 THEN Hex(hash.lo) ELSE Hex(hash.hi) \o Hex4(hash.lo)

\* createContentHash
CreateContentHash(text) == HashOf(CleanText(text))

\* createReportSnapshot: the text given to createContentHash
HashInput(cleanedData) == cleanedData.cleanContent \o cleanedData.author

\* createReportSnapshot after cleanReportContent
SnapshotOf(cleanedData) ==
  [category |-> cleanedData.category,
   cleanContent |-> cleanedData.cleanContent,
   author |-> cleanedData.author,
   hashInput |-> HashInput(cleanedData),
   contentHash |-> CreateContentHash(HashInput(cleanedData))]

\* createReportSnapshot: the cleaned fields and the content hash of a card
Fingerprint(textContent) == SnapshotOf(CleanReportContent(textContent))

(***************************************************************************)
(* Reported addresses: STEP 5 of cleanReportContent                        *)
(***************************************************************************)
\* [1-9A-HJ-NP-Za-km-z]
Base58 ==
  ((DigitSet \cup {UpperAlpha[i] : i \in 1..26} \cup {LowerAlpha[i] : i \in 1..26})
     \ {"0", "I", "O", "l"})

\* [02-9ac-hj-np-z]
Bech32 ==
  ((DigitSet \cup {LowerAlpha[i] : i \in 1..26}) \ {"1", "b", "i", "o"})

\* [a-z0-9]
LowerOrDigit == DigitSet \cup {LowerAlpha[i] : i \in 1..26}

\* [a-fA-F0-9]
HexDigit ==
  DigitSet \cup {LowerAlpha[i] : i \in 1..6} \cup {UpperAlpha[i] : i \in 1..6}

\* a pattern of the shape (prefix)[class]{min,max}, the prefix one of heads
Pattern(heads, class, min, max) ==
  [heads |-> heads, class |-> class, min |-> min, max |-> max]

\* the patterns of allPotentialMatches, in the order of the array
CandidatePatterns ==
  <<Pattern({<<"1">>, <<"3">>}, Base58, 20, 40),
    Pattern({<<"b", "c", "1">>}, Bech32, 30, 70),
    Pattern({<<"l", "t", "c", "1">>}, Bech32, 30, 70),
    Pattern({<<"a", "d", "d", "r", "1">>}, LowerOrDigit, 50, 120),
    Pattern({<<"0", "x">>}, HexDigit, 40, 40),
    Pattern({<<"T">>}, Base58, 30, 40),
    Pattern({<<"L">>, <<"M">>}, Base58, 20, 40),
    Pattern({<<"e", "r", "d", "1">>}, LowerOrDigit, 58, 58),
    Pattern({<<>>}, Base58, 32, 44)>>

\* the index of the last character of the match of pattern pt that starts
\* at index i of s (the quantifier is greedy); i - 1 when there is none
PatternEnd(s, i, pt) ==
  LET hs == {h \in pt.heads : StartsAt(s, i, h)}
      n == Len(CHOOSE h \in hs : TRUE)
      run == RunEnd(s, i + n, pt.class) - (i + n) + 1
  IN IF i > Len(s) \/ hs = {} THEN i - 1
     ELSE IF run < pt.min THEN i - 1
     ELSE i + n - 1 + (IF run > pt.max THEN pt.max ELSE run)

\* content.matchAll(/(pattern)/g) from index from on: the matches from left
\* to right, each with its 0-based index and its text
RECURSIVE MatchAllFrom(_, _, _)
MatchAllFrom(s, pt, from) ==
  LET starts == {i \in from..Len(s) : PatternEnd(s, i, pt) >= i}
  IN IF starts = {} THEN <<>>
     ELSE <<[index |-> Least(starts) - 1,
             text |-> SubSeq(s, Least(starts), PatternEnd(s, Least(starts), pt))]>>
            \o MatchAllFrom(s, pt, PatternEnd(s, Least(starts), pt) + 1)

\* allPotentialMatches: the matches of the patterns, one pattern after another
RECURSIVE AllPotentialMatchesFrom(_, _)
AllPotentialMatchesFrom(content, k) ==
  IF k > Len(CandidatePatterns) THEN <<>>
  ELSE MatchAllFrom(content, CandidatePatterns[k], 1)
         \o AllPotentialMatchesFrom(content, k + 1)

AllPotentialMatches(content) == AllPotentialMatchesFrom(content, 1)

\* the match overlaps a processed position
IsOverlapping(startPos, endPos, processed) ==
  \E k \in 1..Len(processed) :
    \/ startPos >= processed[k].start /\ startPos < processed[k].end
    \/ endPos > processed[k].start /\ endPos <= processed[k].end

\* if (s.startsWith(word)) s = s.substring(word.length)
DropStart(s, word) ==
  IF StartsAt(s, 1, word) THEN SubSeq(s, Len(word) + 1, Len(s)) ELSE s

\* s.replace(/^word/i, '')
DropStartCI(s, word) ==
  IF StartsAtCI(s, 1, word) THEN SubSeq(s, Len(word) + 1, Len(s)) ELSE s

\* s.replace(/word$/i, '')
DropEndCI(s, word) ==
  IF StartsAtCI(s, Len(s) - Len(word) + 1, word)
  THEN SubSeq(s, 1, Len(s) - Len(word)) ELSE s

\* the words of KROK 1 and KROK 2, in the order of the code
AddressStarts == <<<<"d", "d", "r", "e", "s", "s">>, <<"A", "d", "d", "r", "e", "s", "s">>,
                   <<"e", "p", "o", "r", "t", "e", "d">>>>

AddressEndsCI ==
  <<<<"r", "e", "p", "o", "r", "t", "e", "d">>,
    <<"r", "e", "p", "o", "r", "t", "e", "d", "d", "o", "m", "a", "i", "n">>,
    <<"r", "e", "p", "o", "r", "t", "e", "d", "a", "d", "d", "r", "e", "s", "s">>,
    <<"d", "o", "m", "a", "i", "n">>,
    <<"a", "d", "d", "r", "e", "s", "s">>,
    <<"r", "e", "p", "o", "r", "t", "e">>,
    <<"a", "d", "d", "r", "e", "s">>>>

AddressStartsCI ==
  <<<<"t", "r", "c", "2", "0">>, <<"u", "s", "d", "t">>, <<"b", "t", "c">>,
    <<"e", "t", "h">>>>

\* F applied with the words of a list, one after another
RECURSIVE FoldWords(_, _, _, _)
FoldWords(F(_, _), s, words, k) ==
  IF k > Len(words) THEN s ELSE FoldWords(F, F(s, words[k]), words, k + 1)

\* KROK 1 and KROK 2
StripAddress(rawAddress) ==
  Trim(FoldWords(DropStartCI,
                 FoldWords(DropEndCI, FoldWords(DropStart, rawAddress, AddressStarts, 1),
                           AddressEndsCI, 1),
                 AddressStartsCI, 1))

\* /^(prefix)[class]{min,max}$/ matches s
FullMatch(s, pt) ==
  \E h \in pt.heads :
    /\ StartsAt(s, 1, h)
    /\ Len(s) - Len(h) >= pt.min
    /\ Len(s) - Len(h) <= pt.max
    /\ \A i \in (Len(h) + 1)..Len(s) : s[i] \in pt.class

\* the forms that KROK 3 leaves alone (+ is one or more)
KnownForms ==
  {Pattern({<<"0", "x">>}, HexDigit, 40, 40),
   Pattern({<<"b", "c", "1">>}, Bech32, 1, 1000),
   Pattern({<<"1">>, <<"3">>}, Base58, 1, 1000),
   Pattern({<<"T">>}, Base58, 1, 1000),
   Pattern({<<"L">>, <<"M">>}, Base58, 1, 1000),
   Pattern({<<"a", "d", "d", "r", "1">>}, LowerOrDigit, 1, 1000)}

\* the alternatives of the pattern that KROK 3 looks for, in order
InnerForms ==
  <<Pattern({<<"0", "x">>}, HexDigit, 40, 40),
    Pattern({<<"b", "c", "1">>}, Bech32, 39, 62),
    Pattern({<<"1">>, <<"3">>}, Base58, 25, 34),
    Pattern({<<"T">>}, Base58, 33, 33),
    Pattern({<<"L">>, <<"M">>}, Base58, 26, 34),
    Pattern({<<"a", "d", "d", "r", "1">>}, LowerOrDigit, 53, 103)>>

\* KROK 3: an address of no known form gives way to the first address of
\* one of the inner forms that it holds, if any
FirstValidInside(s) ==
  LET hits == {i \in 1..Len(s) :
                 \E k \in 1..Len(InnerForms) : PatternEnd(s, i, InnerForms[k]) >= i}
      i == Least(hits)
      k == Least({j \in 1..Len(InnerForms) : PatternEnd(s, i, InnerForms[j]) >= i})
  IN IF (\E pt \in KnownForms : FullMatch(s, pt)) \/ hits = {} THEN s
     ELSE SubSeq(s, i, PatternEnd(s, i, InnerForms[k]))

\* cleanedAddress
CleanedAddress(rawAddress) == FirstValidInside(StripAddress(rawAddress))

\* the forms that make an address valid; the branch for the Solana form
\* comes after an empty branch with the same condition and is never taken
ValidForms ==
  {Pattern({<<"b", "c", "1">>}, Bech32, 38, 61),
   Pattern({<<"l", "t", "c", "1">>}, Bech32, 38, 61),
   Pattern({<<"a", "d", "d", "r", "1">>}, LowerOrDigit, 50, 120),
   Pattern({<<"1">>, <<"3">>}, Base58, 24, 33),
   Pattern({<<"0", "x">>}, HexDigit, 40, 40),
   Pattern({<<"T">>}, Base58, 33, 33),
   Pattern({<<"L">>, <<"M">>}, Base58, 25, 33),
   Pattern({<<"0", ".", "0", ".">>}, DigitSet, 1, 1000)}

IsValidAddress(cleanedAddress) == \E pt \in ValidForms : FullMatch(cleanedAddress, pt)

\* the loop over the addresses already reported: the first one that holds
\* the new address or is held by it decides (0 when there is none)
FirstRelated(reported, cleanedAddress) ==
  LET related == {k \in 1..Len(reported) :
                    /\ reported[k] # cleanedAddress
                    /\ \/ Includes(reported[k], cleanedAddress)
                       \/ Includes(cleanedAddress, reported[k])}
  IN IF related = {} THEN 0 ELSE Least(related)

\* one turn of the loop over allPotentialMatches, from the lists so far
ProcessMatch(match, reported, processed) ==
  LET startPos == match.index
      endPos == startPos + Len(match.text)
      cleanedAddress == CleanedAddress(match.text)
      k == FirstRelated(reported, cleanedAddress)
      same == [reported |-> reported, processed |-> processed]
  IN IF IsOverlapping(startPos, endPos, processed) THEN same
     ELSE IF ~(/\ IsValidAddress(cleanedAddress)
               /\ Len(cleanedAddress) >= 25
               /\ ~\E j \in 1..Len(reported) : reported[j] = cleanedAddress)
     THEN same
     ELSE IF k = 0
     THEN [reported |-> Append(reported, cleanedAddress),
           processed |-> Append(processed, [start |-> startPos, end |-> endPos])]
     ELSE IF Includes(reported[k], cleanedAddress) THEN same
     ELSE [reported |-> [reported EXCEPT
                          ![Least({j \in 1..Len(reported) : reported[j] = reported[k]})]
                            = cleanedAddress],
           processed |-> processed]

(***************************************************************************)
(* The amount lost of a report                                             *)
(***************************************************************************)
AmountChars == DigitSet \cup {",", "."}

\* index of the last character of the match of /([0-9,.]+ USD)/i (of
\* /([0-9,.]+\s*USD)/i when html) that starts at index i of s, else 0
UsdEnd(s, i, html) ==
  LET r == RunEnd(s, i, AmountChars)
      w == IF html THEN RunEnd(s, r + 1, White)
           ELSE IF r + 1 <= Len(s) /\ s[r + 1] = " " THEN r + 1 ELSE 0
  IN IF r >= i /\ w > 0 /\ StartsAtCI(s, w + 1, W_usd) THEN w + 3 ELSE 0

\* where the matches of a global search start: a match takes its run of
\* digits, commas and dots from the first character of the run
UsdStarts(s, html) ==
  {i \in 1..Len(s) : /\ UsdEnd(s, i, html) > 0
                     /\ (i = 1 \/ s[i - 1] \notin AmountChars)}

\* the first and the last match, trimmed; <<>> for none
FirstUsd(s, html) ==
  IF UsdStarts(s, html) = {} THEN <<>>
  ELSE LET i == Least(UsdStarts(s, html)) IN Trim(SubSeq(s, i, UsdEnd(s, i, html)))

LastUsd(s, html) ==
  IF UsdStarts(s, html) = {} THEN <<>>
  ELSE LET i == CHOOSE x \in UsdStarts(s, html) : \A y \in UsdStarts(s, html) : x >= y
       IN Trim(SubSeq(s, i, UsdEnd(s, i, html)))

\* the first USD amount of the first of lines[from..to] that holds one
FirstUsdInLines(lines, from, to) ==
  LET hits == {j \in from..to : j <= Len(lines) /\ FirstUsd(Trim(lines[j]), FALSE) # <<>>}
  IN IF hits = {} THEN <<>> ELSE FirstUsd(Trim(lines[Least(hits)]), FALSE)

\* quickAnalyzeForTelegram, WARIANT 1 and WARIANT 2 for the line of index i
AnchorAmountAt(lines, i) ==
  LET line == Trim(lines[i])
      variant1 ==
        IF Includes(ReplaceAll(ToLowerCase(line), WhiteEnd, <<" ">>), W_amount_lost)
        THEN FirstUsdInLines(lines, i + 1, i + 4)
        ELSE <<>>
      variant2 ==
        IF /\ Trim(ToLowerCase(line)) = W_amount
           /\ i + 1 <= Len(lines)
           /\ ToLowerCase(Trim(lines[i + 1])) = W_lost
        THEN FirstUsdInLines(lines, i + 2, i + 6)
        ELSE <<>>
  IN IF variant1 # <<>> THEN variant1 ELSE variant2

\* quickAnalyzeForTelegram(textContent).amountLost
QuickAmountLost(textContent) ==
  LET lines == Split(textContent, {"\n"})
      hits == {i \in 1..Len(lines) : AnchorAmountAt(lines, i) # <<>>}
  IN IF hits # {} THEN AnchorAmountAt(lines, Least(hits))
     ELSE LastUsd(textContent, FALSE)

\* cleanReportContent(rawContent).amountLost (STEP 1.5)
CleanedAmountLost(rawContent) == LastUsd(rawContent, FALSE)

\* extractAmountFromInnerHTML
ExtractAmountFromInnerHTML(html) ==
  IF UsdStarts(html, TRUE) = {} THEN <<>>
  ELSE IF Includes(ToLowerCase(html), W_amount) /\ Includes(ToLowerCase(html), W_lost)
  THEN FirstUsd(html, TRUE)
  ELSE IF Cardinality(UsdStarts(html, TRUE)) = 1 THEN FirstUsd(html, TRUE)
  ELSE <<>>

\* amountFromHTML || quickData.amountLost || cleanedData.amountLost
FinalAmountLost(amountFromHTML, textContent) ==
  IF amountFromHTML # <<>> THEN amountFromHTML
  ELSE IF QuickAmountLost(textContent) # <<>> THEN QuickAmountLost(textContent)
  ELSE CleanedAmountLost(textContent)

(***************************************************************************)
(* The state                                                               *)
(***************************************************************************)
VARIABLES
  \* CleanReportMonitor.sentReportHashes: a Set, kept in insertion order
  sentReportHashes,
  \* CleanReportMonitor.lastReportHashes
  lastReportHashes,
  \* CleanReportMonitor.checkCount
  checkCount,
  \* sent-reports.json
  sentReportsFile,
  \* the executions of checkForNewReports: per slot, its position and locals
  execs,
  \* the cycle that ended last: {H} when it read a page with the hash set H,
  \* {} when its fetch failed or no cycle has ended yet
  prevCycle,
  \* hashes that a finished cycle recorded on the not-fresh branch and that
  \* are still in sentReportHashes
  staleRecorded,
  \* how many writes of the durable file have failed
  writeFails,
  \* the hashes that the durable file held when the process started and
  \* that the cap has not cut from sentReportHashes since
  durableHashes,
  \* the hashes for which a notification has been emitted and that the cap
  \* has not cut from sentReportHashes since
  notifiedHashes,
  \* auto monitor: isMonitoring, monitorInterval (is a timer registered)
  \* and the number of pending 10 s initial-check timers
  isMonitoring, monitorInterval, pendingInitial,
  \* how many interval timers of the auto monitor are registered (set and
  \* not cleared)
  intervalTimers,
  \* the pure-function specification: a card text, the timeAgo extracted
  \* from it and the verdict of the freshness test ("none" before it ran)
  cardText, timeAgo, verdict,
  \* the store specification: the set of a monitor that saves, the file as
  \* text, the set of a monitor constructed afterwards, and how far the
  \* scenario is ("start", "saved", "constructed", "reloaded", "crashed")
  storeSet, storeFile, storeLoaded, storePc,
  \* the fingerprint specification: the texts of two cards, and for each
  \* the cleaned fields and content hash that createReportSnapshot gave it
  \* (NoSnapshot before it ran)
  items, snaps,
  \* the address specification: the text STEP 5 of cleanReportContent works
  \* on, its allPotentialMatches, how many of them the loop has dealt with,
  \* and the loop's reportedAddresses and processedPositions
  content, allPotentialMatches, matchIndex, reportedAddresses, processedPositions,
  \* the amount specification: textContent and innerHTML of a card, its
  \* amountLostFromHTML, the finalAmountLost of its turn of the send loop,
  \* and how far the card is ("card", "pushed", "settled")
  textContent, innerHTML, amountLostFromHTML, finalAmountLost, amountPc,
  \* the server-side monitor: is there a monitor object, how many delayed starts are pending, its isRunning,
  \* interval (is a handle held), lastPageSignature and checkCount, the
  \* executions of checkForChanges, and how often the clock has been read
  globalMonitor, pendingStart, isRunning, interval,
  lastPageSignature, serverCheckCount, checks, clock,
  \* how many interval timers of the server-side monitor are registered,
  \* and the page content of the last check whose signature was stored
  serverTimers, storedContent

monitorVars == <<sentReportHashes, lastReportHashes, checkCount, sentReportsFile,
                 execs, prevCycle, staleRecorded, writeFails, durableHashes,
                 notifiedHashes>>

autoVars == <<isMonitoring, monitorInterval, pendingInitial, intervalTimers>>

freshVars == <<cardText, timeAgo, verdict>>

storeVars == <<storeSet, storeFile, storeLoaded, storePc>>

\* the variables of the specifications of single functions
hashVars == <<items, snaps>>

addrVars == <<content, allPotentialMatches, matchIndex, reportedAddresses,
              processedPositions>>

\* the variables of the specifications that come after the fingerprint's
amountVars == <<textContent, innerHTML, amountLostFromHTML, finalAmountLost,
                amountPc>>

serverVars == <<globalMonitor, pendingStart, isRunning, interval,
                lastPageSignature, serverCheckCount, checks, clock,
                serverTimers, storedContent>>

laterVars == <<addrVars, amountVars, serverVars>>

pureVars == <<freshVars, storeVars, hashVars, laterVars>>

vars == <<monitorVars, autoVars, pureVars>>

Hashes == 1..MaxHash

Execs == 1..MaxExecs

Range(s) == {s[i] : i \in 1..Len(s)}

\* Set.prototype.add on a Set kept in insertion order
SetAdd(s, h) == IF h \in Range(s) THEN s ELSE Append(s, h)

\* new Set(array): the first occurrence of each element, in order
RECURSIVE NewSet(_)
NewSet(a) ==
  IF a = <<>> THEN <<>>
  ELSE SetAdd(NewSet(SubSeq(a, 1, Len(a) - 1)), a[Len(a)])

\* the cut that keeps the oldest n
SliceLast_oldest(a, n) == IF Len(a) <= n THEN a ELSE SubSeq(a, 1, n)

\* sentArray.slice(-n)
SliceLast(a, n) == IF Len(a) <= n THEN a ELSE SubSeq(a, Len(a) - n + 1, Len(a))

(***************************************************************************)
(* The durable file                                                        *)
(***************************************************************************)
NoFile == [exists |-> FALSE, sentHashes |-> <<>>, totalSent |-> 0]

\* what saveSentReports writes (the lastSaved time stamp is left out)
FileOf(sent) == [exists |-> TRUE, sentHashes |-> sent, totalSent |-> Len(sent)]

\* the constructor that starts from the empty set whatever the file holds
LoadSentReports_none(f) == <<>>

LoadSentReports(f) == IF f.exists THEN NewSet(f.sentHashes) ELSE <<>>

\* saveSentReports: the whole file is replaced; a failed write is caught
\* and leaves the file as it was
SaveSentReports(sent, f, writeOk) == IF writeOk THEN FileOf(sent) ELSE f

Failed(writeOk) == IF writeOk THEN 0 ELSE 1

\* files a previous run of the program left behind
InitialFiles == {NoFile, FileOf(<<1>>)}

(***************************************************************************)
(* The text of the durable file: JSON.stringify and JSON.parse on the      *)
(* values the file can hold (no escapes and no fractions occur in them)    *)
(***************************************************************************)
Quote == "\""

JsonWhite == {" ", "\n", "\t", "\r"}

W_null == <<"n", "u", "l", "l">>
W_true == <<"t", "r", "u", "e">>
W_false == <<"f", "a", "l", "s", "e">>
W_sentHashes == <<"s", "e", "n", "t", "H", "a", "s", "h", "e", "s">>
W_lastSaved == <<"l", "a", "s", "t", "S", "a", "v", "e", "d">>
W_totalSent == <<"t", "o", "t", "a", "l", "S", "e", "n", "t">>

\* JavaScript values: v is the characters of a string or of a number, the
\* elements of an array, the members [k, val] of an object
JUndefined == [t |-> "undefined", v |-> <<>>]
JNull == [t |-> "null", v |-> <<>>]
JBool(b) == [t |-> "bool", v |-> IF b THEN W_true ELSE W_false]
JStr(c) == [t |-> "str", v |-> c]
JNum(c) == [t |-> "num", v |-> c]
JArr(es) == [t |-> "arr", v |-> es]
JObj(ms) == [t |-> "obj", v |-> ms]

Member(k, val) == [k |-> k, val |-> val]

\* the outcome of parsing at an index: a SyntaxError, or a value and the
\* index after it
ParseFail == [ok |-> FALSE, val |-> JUndefined, next |-> 0]
Parsed(val, next) == [ok |-> TRUE, val |-> val, next |-> next]

SkipWhite(s, i) == RunEnd(s, i, JsonWhite) + 1

\* a string: from the quote at i to the next quote, with no backslash and
\* no line break in between
ParseString(s, i) ==
  IF \E j \in (i + 1)..Len(s) : s[j] = Quote
  THEN LET j == CHOOSE j \in (i + 1)..Len(s) :
                  /\ s[j] = Quote
                  /\ \A k \in (i + 1)..(j - 1) : s[k] # Quote
       IN IF \E k \in (i + 1)..(j - 1) : s[k] \in {"\\", "\n", "\r", "\t"}
          THEN ParseFail
          ELSE Parsed(JStr(SubSeq(s, i + 1, j - 1)), j + 1)
  ELSE ParseFail

\* a number: digits, without a leading zero before other digits
ParseNumber(s, i) ==
  LET j == RunEnd(s, i, DigitSet)
  IN IF s[i] = "0" /\ j > i THEN ParseFail
     ELSE Parsed(JNum(SubSeq(s, i, j)), j + 1)

RECURSIVE ParseValue(_, _), ParseElements(_, _, _), ParseMembers(_, _, _)
ParseValue(s, i0) ==
  LET i == SkipWhite(s, i0)
  IN IF i > Len(s) THEN ParseFail
     ELSE IF s[i] = Quote THEN ParseString(s, i)
     ELSE IF s[i] \in DigitSet THEN ParseNumber(s, i)
     ELSE IF StartsAt(s, i, W_null) THEN Parsed(JNull, i + 4)
     ELSE IF StartsAt(s, i, W_true) THEN Parsed(JBool(TRUE), i + 4)
     ELSE IF StartsAt(s, i, W_false) THEN Parsed(JBool(FALSE), i + 5)
     ELSE IF s[i] = "["
          THEN LET j == SkipWhite(s, i + 1)
               IN IF j <= Len(s) /\ s[j] = "]" THEN Parsed(JArr(<<>>), j + 1)
                  ELSE ParseElements(s, i + 1, <<>>)
     ELSE IF s[i] = "{"
          THEN LET j == SkipWhite(s, i + 1)
               IN IF j <= Len(s) /\ s[j] = "}" THEN Parsed(JObj(<<>>), j + 1)
                  ELSE ParseMembers(s, i + 1, <<>>)
     ELSE ParseFail

ParseElements(s, i, acc) ==
  LET r == ParseValue(s, i)
  IN IF ~r.ok THEN ParseFail
     ELSE LET j == SkipWhite(s, r.next)
          IN IF j > Len(s) THEN ParseFail
             ELSE IF s[j] = "," THEN ParseElements(s, j + 1, Append(acc, r.val))
             ELSE IF s[j] = "]" THEN Parsed(JArr(Append(acc, r.val)), j + 1)
             ELSE ParseFail

ParseMembers(s, i, acc) ==
  LET k0 == SkipWhite(s, i)
  IN IF k0 > Len(s) \/ s[k0] # Quote THEN ParseFail
     ELSE LET k == ParseString(s, k0)
          IN IF ~k.ok THEN ParseFail
             ELSE LET c == SkipWhite(s, k.next)
                  IN IF c > Len(s) \/ s[c] # ":" THEN ParseFail
                     ELSE LET r == ParseValue(s, c + 1)
                          IN IF ~r.ok THEN ParseFail
                             ELSE LET j == SkipWhite(s, r.next)
                                      ms == Append(acc, Member(k.val.v, r.val))
                                  IN IF j > Len(s) THEN ParseFail
                                     ELSE IF s[j] = "," THEN ParseMembers(s, j + 1, ms)
                                     ELSE IF s[j] = "}" THEN Parsed(JObj(ms), j + 1)
                                     ELSE ParseFail

\* JSON.parse: one value and nothing but white space after it
JSONParse(s) ==
  LET r == ParseValue(s, 1)
  IN IF r.ok /\ SkipWhite(s, r.next) = Len(s) + 1 THEN r ELSE ParseFail

RECURSIVE Indent(_)
Indent(n) == IF n = 0 THEN <<>> ELSE <<" ">> \o Indent(n - 1)

\* JSON.stringify(value, null, 2) at indentation ind
RECURSIVE Stringify(_, _), StringifyElements(_, _, _), StringifyMembers(_, _, _)
Stringify(val, ind) ==
  IF val.t = "str" THEN <<Quote>> \o val.v \o <<Quote>>
  ELSE IF val.t = "num" \/ val.t = "bool" THEN val.v
  ELSE IF val.t = "arr"
       THEN IF val.v = <<>> THEN <<"[", "]">>
            ELSE <<"[", "\n">> \o StringifyElements(val.v, 1, ind + 2)
                   \o <<"\n">> \o Indent(ind) \o <<"]">>
  ELSE IF val.t = "obj"
       THEN IF val.v = <<>> THEN <<"{", "}">>
            ELSE <<"{", "\n">> \o StringifyMembers(val.v, 1, ind + 2)
                   \o <<"\n">> \o Indent(ind) \o <<"}">>
  ELSE W_null

StringifyElements(es, k, ind) ==
  Indent(ind) \o Stringify(es[k], ind)
    \o (IF k < Len(es) THEN <<",", "\n">> \o StringifyElements(es, k + 1, ind)
        ELSE <<>>)

StringifyMembers(ms, k, ind) ==
  Indent(ind) \o <<Quote>> \o ms[k].k \o <<Quote, ":", " ">>
    \o Stringify(ms[k].val, ind)
    \o (IF k < Len(ms) THEN <<",", "\n">> \o StringifyMembers(ms, k + 1, ind)
        ELSE <<>>)

\* value.name, for a value that is neither null nor undefined: the member of
\* an object (the last of that name), undefined on every other value
GetProperty(val, name) ==
  IF val.t = "obj" /\ \E i \in 1..Len(val.v) : val.v[i].k = name
  THEN val.v[CHOOSE i \in 1..Len(val.v) :
               /\ val.v[i].k = name
               /\ \A j \in (i + 1)..Len(val.v) : val.v[j].k # name].val
  ELSE JUndefined

\* the value counts as true in a condition
Truthy(val) ==
  IF val.t \in {"undefined", "null"} THEN FALSE
  ELSE IF val.t = "bool" THEN val.v = W_true
  ELSE IF val.t = "str" THEN val.v # <<>>
  ELSE IF val.t = "num" THEN \E i \in 1..Len(val.v) : val.v[i] # "0"
  ELSE TRUE

\* a file on disk: is it there, can it be read, and its text
AbsentFile == [exists |-> FALSE, readable |-> FALSE, text |-> <<>>]
TextFile(text) == [exists |-> TRUE, readable |-> TRUE, text |-> text]

\* new Date().toISOString()
W_iso == <<"2", "0", "2", "4", "-", "0", "5", "-", "0", "1", "T", "1", "0", ":", "0", "0", ":", "0", "0", ".", "0", "0", "0", "Z">>

\* saveSentReports, the text it writes for a set (in insertion order)
DataToSave(set) ==
  JObj(<<Member(W_sentHashes, JArr(set)),
         Member(W_lastSaved, JStr(W_iso)),
         Member(W_totalSent, JNum(Digits(Len(set))))>>)

\* the save that writes the array alone
SaveText_bare(set) == Stringify(JArr(set), 0)

SaveText(set) == Stringify(DataToSave(set), 0)

\* the try block of loadSentReports: it throws (readFileSync, JSON.parse, a
\* property of null), or it leaves the set it read, or the empty set the
\* field starts with
LoadBody(file) ==
  IF ~file.exists THEN [threw |-> FALSE, set |-> <<>>]
  ELSE IF ~file.readable THEN [threw |-> TRUE, set |-> <<>>]
  ELSE LET savedData == JSONParse(file.text)
       IN IF ~savedData.ok THEN [threw |-> TRUE, set |-> <<>>]
          ELSE IF savedData.val.t = "null" THEN [threw |-> TRUE, set |-> <<>>]
          ELSE LET sentHashes == GetProperty(savedData.val, W_sentHashes)
               IN IF Truthy(sentHashes) /\ sentHashes.t = "arr"
                  THEN [threw |-> FALSE, set |-> NewSet(sentHashes.v)]
                  ELSE [threw |-> FALSE, set |-> <<>>]

\* the load without its catch block
LoadFromFile_nocatch(file) == LoadBody(file)

\* loadSentReports: the catch block starts from the empty set
LoadFromFile(file) ==
  LET body == LoadBody(file)
  IN IF body.threw THEN [threw |-> FALSE, set |-> <<>>] ELSE body

(***************************************************************************)
(* Pages                                                                   *)
(***************************************************************************)
W_hours == Plural(W_hour)
W_minutes == Plural(W_minute)

CardTexts ==
  { W_lead \o Phrase(3, W_minutes) \o W_trail,
    W_lead \o Phrase(2, W_hours) \o W_trail,
    W_lead \o Phrase(1, W_day) \o W_trail,
    W_lead \o W_trail }

\* a report card: the content hash its text gets and the text's recency part
Cards == [hash : Hashes, text : CardTexts]

\* waitForSelector('.create-ScamReportCard') lets a fetch succeed only with
\* at least one card on the page
Pages == UNION {[1..n -> Cards] : n \in 1..MaxCards}

\* finalAmountLost values: none, "500 USD", "0.50 USD", "$12,500", "300 EUR"
A_none == <<>>
A_500usd == <<"5", "0", "0", " ", "U", "S", "D">>
A_half == <<"0", ".", "5", "0", " ", "U", "S", "D">>
A_dollar == <<"$", "1", "2", ",", "5", "0", "0">>
A_eur == <<"3", "0", "0", " ", "E", "U", "R">>

Amounts == {A_none, A_500usd, A_half, A_dollar, A_eur}

\* the function on S with the values of F, every value computed once
Tabulate(S, F(_)) == [x \in S |-> F(x)] @@ <<>>

Positions == 0..(MaxCards - 1)

\* the text functions on the texts of the model
TimeAgoRow(t) == Tabulate(Positions, LAMBDA p : ExtractTimeAgo(t, p))

TimeAgoTable == Tabulate(CardTexts, TimeAgoRow)

TimeAgos == UNION {{TimeAgoTable[t][p] : p \in Positions} : t \in CardTexts}

VeryFreshTable == Tabulate(TimeAgos, IsVeryFresh)

SignificantTable == Tabulate(Amounts, IsAmountUSDSignificant)

\* createReportSnapshot for the card at 0-based index position
CreateReportSnapshot(card, position) ==
  [contentHash |-> card.hash,
   timeAgo |-> TimeAgoTable[card.text][position],
   position |-> position]

CurrentReports(page) == [i \in 1..Len(page) |-> CreateReportSnapshot(page[i], i - 1)]

HashesOf(reports) == {reports[i].contentHash : i \in 1..Len(reports)}

(***************************************************************************)
(* checkForNewReports                                                      *)
(***************************************************************************)
IdleExec ==
  [pc |-> "idle", num |-> 0, cur |-> <<>>, baseline |-> FALSE, isNew |-> {},
   stale |-> {}, newReports |-> <<>>, idx |-> 0, amount |-> <<>>,
   emitted |-> {}, filtered |-> {}, result |-> "none", overStop |-> FALSE]

InFlight(e) == execs[e].pc # "idle"

\* the detection loop: the reports that pass the outer test, in page order,
\* and the insertions of the not-fresh branch
IsNewReport(report, last, sent) ==
  /\ report.contentHash \notin last
  /\ report.contentHash \notin Range(sent)

\* the not-fresh branch where the hash is not marked
RecordNotFresh_skip(sent, hash) == sent

\* the not-fresh branch: the hash is marked as seen
RecordNotFresh(sent, hash) == SetAdd(sent, hash)

RECURSIVE Detect(_, _, _, _)
\* reports: currentReports; k: how many of them have been visited;
\* acc: [sent, isNew, stale, newReports] so far
Detect(reports, k, last, acc) ==
  IF k = Len(reports) THEN acc
  ELSE LET r == reports[k + 1]
           p == k + 1
       IN IF IsNewReport(r, last, acc.sent)
          THEN IF VeryFreshTable[r.timeAgo]
               THEN Detect(reports, k + 1, last,
                           [acc EXCEPT !.isNew = @ \cup {p},
                                       !.newReports = Append(@, p)])
               ELSE Detect(reports, k + 1, last,
                           [acc EXCEPT !.isNew = @ \cup {p},
                                       !.stale = @ \cup {p},
                                       !.sent = RecordNotFresh(@, r.contentHash)])
          ELSE Detect(reports, k + 1, last, acc)

RECURSIVE AddAll(_, _)
\* currentReports.forEach(report => sentReportHashes.add(report.contentHash))
AddAll(sent, reports) ==
  IF reports = <<>> THEN sent
  ELSE AddAll(SetAdd(sent, reports[1].contentHash), Tail(reports))

\* the end of a cycle where a failed write takes the set back to the file's
EndOfCycle_rollback(sent, f, w1, w2) ==
  IF ~w1 THEN [sent |-> f.sentHashes, file |-> f, fails |-> 1]
  ELSE IF Len(sent) > SentCap
       THEN [sent |-> SliceLast(sent, SentCap),
             file |-> SaveSentReports(SliceLast(sent, SentCap), FileOf(sent), w2),
             fails |-> Failed(w2)]
       ELSE [sent |-> sent, file |-> FileOf(sent), fails |-> 0]

\* the end of a steady cycle: save, then cut to the cap and save again
\* (w1, w2: whether the two writes succeed)
EndOfCycle(sent, f, w1, w2) ==
  LET f1 == SaveSentReports(sent, f, w1)
  IN IF Len(sent) > SentCap
     THEN [sent |-> SliceLast(sent, SentCap),
           file |-> SaveSentReports(SliceLast(sent, SentCap), f1, w2),
           fails |-> Failed(w1) + Failed(w2)]
     ELSE [sent |-> sent, file |-> f1, fails |-> Failed(w1)]

\* the hashes of durable that a step from the set before to the set after
\* has not cut
Surviving(durable, before, after) == durable \ (Range(before) \ Range(after))

\* the outcomes a write can have: it can fail while the bound allows
WriteOutcomes(maxFails) == IF writeFails < maxFails THEN BOOLEAN ELSE {TRUE}

\* the failed writes are counted, up to the bound
CountFails(n) ==
  /\ writeFails + n <= MaxWriteFails
  /\ writeFails' = writeFails + n

\* the inputs a specification draws from: the pages a fetch can return, the
\* values finalAmountLost can have, and how many writes of the file can fail
Inputs(pages, amounts, maxFails) ==
  [pages |-> pages, amounts |-> amounts, maxFails |-> maxFails]

\* checkCount++ and the start of the fetch
Begin(e) ==
  /\ execs[e].pc = "idle"
  /\ checkCount < MaxChecks
  /\ checkCount' = checkCount + 1
  /\ execs' = [execs EXCEPT ![e] = [IdleExec EXCEPT !.pc = "fetching",
                                                    !.num = checkCount + 1]]
  /\ UNCHANGED <<sentReportHashes, lastReportHashes, sentReportsFile,
                 prevCycle, staleRecorded, writeFails, durableHashes,
                 notifiedHashes>>

\* launchBrowser, page.goto or waitForSelector throws: the catch block
FetchFail(e) ==
  /\ execs[e].pc = "fetching"
  /\ execs' = [execs EXCEPT ![e].pc = "closing", ![e].result = "fail"]
  /\ UNCHANGED <<sentReportHashes, lastReportHashes, checkCount, sentReportsFile,
                 prevCycle, staleRecorded, writeFails, durableHashes,
                 notifiedHashes>>

\* the test of the first run where no run is ever the first
IsFirstRun_never == checkCount = 0

\* this.checkCount === 1
IsFirstRun == checkCount = 1

\* the snapshot where the page just seen is forgotten
NewSnapshot_forget(reports) == {}

\* this.lastReportHashes = currentHashes
NewSnapshot(reports) == HashesOf(reports)

\* the first run: the page becomes the baseline and is saved, then the
\* start-up message is sent
Baseline(e, reports, w1) ==
  LET sent == AddAll(sentReportHashes, reports)
  IN /\ lastReportHashes' = NewSnapshot(reports)
     /\ sentReportHashes' = sent
     /\ sentReportsFile' = SaveSentReports(sent, sentReportsFile, w1)
     /\ CountFails(Failed(w1))
     /\ execs' = [execs EXCEPT ![e].pc = "startup", ![e].cur = reports,
                               ![e].baseline = TRUE]

\* a later run: the detection loop, the new snapshot, and (with nothing to
\* send) the end of the cycle
Steady(e, reports, w1, w2) ==
  LET d == Detect(reports, 0, lastReportHashes,
                  [sent |-> sentReportHashes, isNew |-> {}, stale |-> {},
                   newReports |-> <<>>])
      end == EndOfCycle(d.sent, sentReportsFile, w1, w2)
      found == [execs[e] EXCEPT !.cur = reports, !.isNew = d.isNew,
                                !.stale = d.stale, !.newReports = d.newReports]
  IN /\ lastReportHashes' = NewSnapshot(reports)
     /\ IF d.newReports = <<>>
        THEN /\ sentReportHashes' = end.sent
             /\ sentReportsFile' = end.file
             /\ CountFails(end.fails)
             /\ execs' = [execs EXCEPT ![e] = [found EXCEPT !.pc = "closing",
                                                            !.result = "ok"]]
        ELSE /\ sentReportHashes' = d.sent
             /\ sentReportsFile' = sentReportsFile
             /\ writeFails' = writeFails
             /\ execs' = [execs EXCEPT ![e] = [found EXCEPT !.pc = "loop",
                                                            !.idx = 1]]

\* the page is fetched and its cards are read; the code runs on without an
\* await up to the start-up message, the first new report or the return
FetchOk(e, page, w1, w2) ==
  /\ execs[e].pc = "fetching"
  /\ IF IsFirstRun
     THEN Baseline(e, CurrentReports(page), w1)
     ELSE Steady(e, CurrentReports(page), w1, w2)
  /\ durableHashes' = Surviving(durableHashes, sentReportHashes, sentReportHashes')
  /\ notifiedHashes' = Surviving(notifiedHashes, sentReportHashes, sentReportHashes')
  /\ UNCHANGED <<checkCount, prevCycle, staleRecorded>>

\* the start-up message of the baseline run is sent, or its send throws
StartupSent(e) ==
  /\ execs[e].pc = "startup"
  /\ execs' = [execs EXCEPT ![e].pc = "closing", ![e].result = "ok"]
  /\ UNCHANGED <<sentReportHashes, lastReportHashes, checkCount, sentReportsFile,
                 prevCycle, staleRecorded, writeFails, durableHashes,
                 notifiedHashes>>

StartupFail(e) ==
  /\ execs[e].pc = "startup"
  /\ execs' = [execs EXCEPT ![e].pc = "closing", ![e].result = "fail"]
  /\ UNCHANGED <<sentReportHashes, lastReportHashes, checkCount, sentReportsFile,
                 prevCycle, staleRecorded, writeFails, durableHashes,
                 notifiedHashes>>

\* the report the send loop is at
CurrentNew(x) == x.cur[x.newReports[x.idx]]

\* after the report at idx is dealt with (sent: the set with its hash added):
\* the next report, or the end of the cycle
NextReport(e, x, sent, w1, w2) ==
  IF x.idx < Len(x.newReports)
  THEN /\ sentReportHashes' = sent
       /\ sentReportsFile' = sentReportsFile
       /\ writeFails' = writeFails
       /\ execs' = [execs EXCEPT ![e] = [x EXCEPT !.pc = "loop", !.idx = @ + 1]]
  ELSE LET end == EndOfCycle(sent, sentReportsFile, w1, w2)
       IN /\ sentReportHashes' = end.sent
          /\ sentReportsFile' = end.file
          /\ CountFails(end.fails)
          /\ execs' = [execs EXCEPT ![e] = [x EXCEPT !.pc = "closing",
                                                     !.result = "ok"]]

\* one turn of the send loop up to the amount filter: the click and the
\* detail page have answered and finalAmountLost is amount
Prepare(e, amount, w1, w2) ==
  /\ execs[e].pc = "loop"
  /\ LET x == execs[e]
         r == CurrentNew(x)
     IN IF ~SignificantTable[amount]
        THEN NextReport(e, [x EXCEPT !.amount = amount,
                                     !.filtered = @ \cup {x.newReports[x.idx]}],
                        SetAdd(sentReportHashes, r.contentHash), w1, w2)
        ELSE /\ execs' = [execs EXCEPT ![e].pc = "sending", ![e].amount = amount]
             /\ UNCHANGED <<sentReportHashes, sentReportsFile, writeFails>>
  /\ durableHashes' = Surviving(durableHashes, sentReportHashes, sentReportHashes')
  /\ notifiedHashes' = Surviving(notifiedHashes, sentReportHashes, sentReportHashes')
  /\ UNCHANGED <<lastReportHashes, checkCount, prevCycle, staleRecorded>>

\* sendTelegramMessage returns: the hash is added
SendOk(e, w1, w2) ==
  /\ execs[e].pc = "sending"
  /\ LET x == execs[e]
         r == CurrentNew(x)
     IN NextReport(e, [x EXCEPT !.emitted = @ \cup {x.newReports[x.idx]}],
                   SetAdd(sentReportHashes, r.contentHash), w1, w2)
  /\ durableHashes' = Surviving(durableHashes, sentReportHashes, sentReportHashes')
  /\ notifiedHashes' = Surviving(notifiedHashes \cup {CurrentNew(execs[e]).contentHash},
                               sentReportHashes, sentReportHashes')
  /\ UNCHANGED <<lastReportHashes, checkCount, prevCycle, staleRecorded>>

\* sendTelegramMessage throws: the catch block of checkForNewReports
SendFail(e) ==
  /\ execs[e].pc = "sending"
  /\ execs' = [execs EXCEPT ![e].pc = "closing", ![e].result = "fail"]
  /\ UNCHANGED <<sentReportHashes, lastReportHashes, checkCount, sentReportsFile,
                 prevCycle, staleRecorded, writeFails, durableHashes,
                 notifiedHashes>>

\* the finally block; POST answers with the result
Close(e) ==
  /\ execs[e].pc = "closing"
  /\ LET x == execs[e]
     IN /\ prevCycle' = IF x.cur = <<>> THEN {} ELSE {HashesOf(x.cur)}
        /\ staleRecorded' =
             (staleRecorded \cup {x.cur[p].contentHash : p \in x.stale})
               \cap Range(sentReportHashes)
  /\ execs' = [execs EXCEPT ![e] = IdleExec]
  /\ UNCHANGED <<sentReportHashes, lastReportHashes, checkCount, sentReportsFile,
                 writeFails, durableHashes,
                 notifiedHashes>>

\* the steps of an execution after it has begun
CheckStep(e, in) ==
  \/ FetchFail(e)
  \/ \E page \in in.pages : \E w1, w2 \in WriteOutcomes(in.maxFails) :
       FetchOk(e, page, w1, w2)
  \/ StartupSent(e)
  \/ StartupFail(e)
  \/ \E amount \in in.amounts : \E w1, w2 \in WriteOutcomes(in.maxFails) :
       Prepare(e, amount, w1, w2)
  \/ \E w1, w2 \in WriteOutcomes(in.maxFails) : SendOk(e, w1, w2)
  \/ SendFail(e)
  \/ Close(e)

InitMonitor ==
  /\ sentReportsFile \in InitialFiles
  /\ sentReportHashes = LoadSentReports(sentReportsFile)
  /\ lastReportHashes = {}
  /\ checkCount = 0
  /\ execs = [e \in Execs |-> IdleExec]
  /\ prevCycle = {}
  /\ staleRecorded = {}
  /\ writeFails = 0
  /\ durableHashes = Range(sentReportsFile.sentHashes)
  /\ notifiedHashes = {}

InitAuto ==
  /\ isMonitoring = FALSE
  /\ monitorInterval = FALSE
  /\ intervalTimers = 0
  /\ pendingInitial = 0

InitNoText ==
  /\ cardText = <<>>
  /\ timeAgo = <<>>
  /\ verdict = "none"

\* how many checks the server-side monitor begins, and how many of its
\* delayed starts can be pending
MaxServerChecks == 3
MaxDelayed == 2

ServerSlots == 1..2

P_one == <<"S", "c", "a", "m", " ", "A">>
P_two == P_one \o <<" ">> \o <<"S", "c", "a", "m", " ", "B">>

\* what the reports page answers
ServerPages == {P_one, P_two}

\* Date.now() at the n-th reading of the clock: a later millisecond each time
DateNow(n) ==
  <<"1", "7", "0", "0", "0", "0", "0">> \o Digits(100000 + 30000 * n)

\* the signature that never depends on the clock
CreatePageSignature_still(pageContent, now) ==
  HashOf(Digits(Len(pageContent)))

\* simpleHash (the loop, Math.abs and toString(16) of createContentHash)
SimpleHash(input) == HashOf(input)

\* content.substring(from, to) with indices from 0
Substring(s, from, to) ==
  SubSeq(s, from + 1, IF to > Len(s) THEN Len(s) ELSE to)

\* createPageSignature
CreatePageSignature(pageContent, now) ==
  LET length == Len(pageContent)
      startHash == SimpleHash(Substring(pageContent, 0, 1000))
      middleHash == SimpleHash(Substring(pageContent, length \div 2,
                                         length \div 2 + 1000))
      endHash == SimpleHash(Substring(pageContent,
                                      IF length > 1000 THEN length - 1000 ELSE 0,
                                      length))
  IN SimpleHash(Digits(length) \o <<"_">> \o startHash \o <<"_">> \o middleHash
                  \o <<"_">> \o endHash \o <<"_">> \o now)

IdleCheck ==
  [pc |-> "idle", content |-> <<>>, signature |-> <<>>, previous |-> <<>>]

\* the module as loaded: no monitor object, nothing scheduled
InitServer ==
  /\ globalMonitor = FALSE
  /\ pendingStart = 0
  /\ isRunning = FALSE
  /\ interval = FALSE
  /\ serverTimers = 0
  /\ lastPageSignature = <<>>
  /\ storedContent = <<>>
  /\ serverCheckCount = 0
  /\ clock = 0
  /\ checks = [s \in ServerSlots |-> IdleCheck]

InitNoAddr ==
  /\ content = <<>>
  /\ allPotentialMatches = <<>>
  /\ matchIndex = 0
  /\ reportedAddresses = <<>>
  /\ processedPositions = <<>>

InitNoAmount ==
  /\ textContent = <<>>
  /\ innerHTML = <<>>
  /\ amountLostFromHTML = <<>>
  /\ finalAmountLost = <<>>
  /\ amountPc = "none"

InitLater == InitNoAddr /\ InitNoAmount /\ InitServer

InitNoStore ==
  /\ storeSet = <<>>
  /\ storeFile = AbsentFile
  /\ storeLoaded = <<>>
  /\ storePc = "none"
  /\ items = <<>>
  /\ snaps = <<>>

(***************************************************************************)
(* Cycles one after another: a request to POST /api/monitor-chainabuse    *)
(* arrives only when no execution is in flight                             *)
(***************************************************************************)
NoneInFlight == \A e \in Execs : ~InFlight(e)

PostAlone ==
  /\ NoneInFlight
  /\ Begin(1)
  /\ UNCHANGED <<autoVars, pureVars>>

\* every page and every amount, with writes that succeed
InputsSeq == Inputs(Pages, Amounts, 0)

StepAlone ==
  /\ CheckStep(1, InputsSeq)
  /\ UNCHANGED <<autoVars, pureVars>>

InitSeq == InitMonitor /\ InitAuto /\ InitNoText /\ InitNoStore /\ InitLater

NextSeq == PostAlone \/ StepAlone

SpecSeq == InitSeq /\ [][NextSeq]_vars

(***************************************************************************)
(* The auto monitor and the requests that start a cycle                    *)
(*                                                                         *)
(* checkChainAbuse posts to /api/monitor-chainabuse, whose handler calls   *)
(* checkForNewReports on the shared monitor; the dashboard components post *)
(* to the same route.  Nothing on the way waits for a running cycle.       *)
(***************************************************************************)
\* startAutoMonitor
StartAutoMonitor ==
  /\ ~isMonitoring
  /\ pendingInitial < MaxPending
  /\ isMonitoring' = TRUE
  /\ pendingInitial' = pendingInitial + 1
  /\ monitorInterval' = TRUE
  /\ intervalTimers' = intervalTimers + 1
  /\ UNCHANGED <<monitorVars, pureVars>>

\* the executions as a stop leaves them: none is touched (overStop only
\* records that the execution was in flight when the stop was processed)
AcrossStop(ex) == [e \in Execs |-> [ex[e] EXCEPT !.overStop = @ \/ ex[e].pc # "idle"]]

\* the stop that would throw away the executions in flight
StopAutoMonitorTo_abort(ex) ==
  /\ isMonitoring \/ monitorInterval
  /\ monitorInterval' = FALSE
  /\ intervalTimers' = IF monitorInterval THEN intervalTimers - 1 ELSE intervalTimers
  /\ isMonitoring' = FALSE
  /\ execs' = [e \in Execs |-> IdleExec]
  /\ UNCHANGED <<pendingInitial, sentReportHashes, lastReportHashes, checkCount,
                 sentReportsFile, prevCycle, staleRecorded, writeFails,
                 durableHashes, notifiedHashes, pureVars>>

\* stopAutoMonitor: the interval is cleared; the 10 s timer is not, and no
\* execution of checkForNewReports is touched (ex: the executions with what
\* an observer notes on them)
StopAutoMonitorTo(ex) ==
  /\ isMonitoring \/ monitorInterval
  /\ monitorInterval' = FALSE
  /\ intervalTimers' = IF monitorInterval THEN intervalTimers - 1 ELSE intervalTimers
  /\ isMonitoring' = FALSE
  /\ execs' = ex
  /\ UNCHANGED <<pendingInitial, sentReportHashes, lastReportHashes, checkCount,
                 sentReportsFile, prevCycle, staleRecorded, writeFails,
                 durableHashes, notifiedHashes, pureVars>>

StopAutoMonitor == StopAutoMonitorTo(execs)

\* stopAutoMonitor with the executions in flight marked
StopObserved == StopAutoMonitorTo(AcrossStop(execs))

\* the 10 s timer of startAutoMonitor fires
InitialCheck(e) ==
  /\ pendingInitial > 0
  /\ pendingInitial' = pendingInitial - 1
  /\ Begin(e)
  /\ UNCHANGED <<isMonitoring, monitorInterval, intervalTimers, pureVars>>

\* the 30 s interval fires
IntervalTick(e) ==
  /\ monitorInterval
  /\ Begin(e)
  /\ UNCHANGED <<autoVars, pureVars>>

\* a dashboard posts to /api/monitor-chainabuse
ManualCheck(e) ==
  /\ Begin(e)
  /\ UNCHANGED <<autoVars, pureVars>>

\* overlapping cycles are explored on one-card pages whose card is three
\* minutes or two hours old, with an amount that passes the filter or none,
\* and with writes that succeed; their cards have the hashes below MaxHash
HashesOverlap == {h \in Hashes : h < MaxHash}

PagesOverlap ==
  UNION {[1..n -> [hash : HashesOverlap,
                   text : {W_lead \o Phrase(3, W_minutes) \o W_trail,
                           W_lead \o Phrase(2, W_hours) \o W_trail}]] : n \in 1..1}

InputsOverlap == Inputs(PagesOverlap, {A_none, A_500usd}, 0)

Step(e) ==
  /\ CheckStep(e, InputsOverlap)
  /\ UNCHANGED <<autoVars, pureVars>>

Init == InitMonitor /\ InitAuto /\ InitNoText /\ InitNoStore /\ InitLater

Next ==
  \/ StartAutoMonitor
  \/ StopAutoMonitor
  \/ \E e \in Execs : InitialCheck(e)
  \/ \E e \in Execs : IntervalTick(e)
  \/ \E e \in Execs : ManualCheck(e)
  \/ \E e \in Execs : Step(e)

Spec == Init /\ [][Next]_vars

(***************************************************************************)
(* The auto monitor with one execution at a time, every begun cycle        *)
(* taking its steps (the awaits of checkForNewReports all time out or      *)
(* answer), and the stops observed                                         *)
(***************************************************************************)
NextGraceful ==
  \/ StartAutoMonitor
  \/ StopObserved
  \/ InitialCheck(1)
  \/ IntervalTick(1)
  \/ ManualCheck(1)
  \/ Step(1)

SpecGraceful == Init /\ [][NextGraceful]_vars /\ WF_vars(Step(1))

(***************************************************************************)
(* Cycles one after another with writes of the file that can fail          *)
(***************************************************************************)
InputsDisk == Inputs(PagesOverlap, {A_none, A_500usd}, MaxWriteFails)

StepDisk ==
  /\ CheckStep(1, InputsDisk)
  /\ UNCHANGED <<autoVars, pureVars>>

NextDisk == PostAlone \/ StepDisk

SpecDisk == InitSeq /\ [][NextDisk]_vars

(***************************************************************************)
(* The freshness test as a function of the card text                       *)
(***************************************************************************)
FreshInputs ==
  {W_lead \o Phrase(n, u) \o W_trail : n \in 0..MaxN, u \in UnitForms}
    \cup {W_lead \o W_trail}

InitFresh ==
  /\ cardText \in FreshInputs
  /\ timeAgo = <<>>
  /\ verdict = "none"
  /\ sentReportsFile = NoFile
  /\ sentReportHashes = <<>>
  /\ lastReportHashes = {}
  /\ checkCount = 0
  /\ execs = [e \in Execs |-> IdleExec]
  /\ prevCycle = {}
  /\ staleRecorded = {}
  /\ writeFails = 0
  /\ durableHashes = {}
  /\ notifiedHashes = {}
  /\ InitAuto
  /\ InitNoStore
  /\ InitLater

\* createReportSnapshot followed by the freshness test of the detection loop
Classify ==
  /\ verdict = "none"
  /\ timeAgo' = ExtractTimeAgo(cardText, 0)
  /\ verdict' = IF IsVeryFresh(ExtractTimeAgo(cardText, 0)) THEN "fresh" ELSE "stale"
  /\ UNCHANGED <<cardText, monitorVars, autoVars, storeVars, hashVars, laterVars>>

NextFresh == Classify

SpecFresh == InitFresh /\ [][NextFresh]_vars

(***************************************************************************)
(* The store file as text: a monitor saves its set, a monitor constructed  *)
(* afterwards loads the file                                               *)
(***************************************************************************)
\* content hashes as createContentHash renders them (toString(16))
HashStrings == {<<"0">>, <<"1", "a">>, <<"b", "2">>, <<"7", "f", "f", "0">>}

\* the sets of up to n hashes, in every insertion order
RECURSIVE SetsInOrder(_)
SetsInOrder(n) ==
  IF n = 0 THEN {<<>>}
  ELSE LET shorter == SetsInOrder(n - 1)
       IN shorter \cup {Append(q, JStr(h)) : q \in shorter, h \in HashStrings}

StoreSets == {q \in SetsInOrder(MaxStored) : Cardinality(Range(q)) = Len(q)}

\* the first half of the text of a file (a write cut short)
CutShort(text) == SubSeq(text, 1, Len(text) \div 2)

W_garbage == <<"<", "h", "t", "m", "l", ">">>

\* texts a file can hold that the program did not write: no text, no JSON,
\* a cut file, null, a number, an array, objects without sentHashes or with
\* one that is no array
ForeignTexts ==
  { <<>>, W_garbage, W_null, <<"5">>, <<"[", "]">>, <<"{", "}">>,
    CutShort(SaveText(<<JStr(<<"1", "a">>)>>)),
    Stringify(JObj(<<Member(W_totalSent, JNum(<<"1">>))>>), 0),
    Stringify(JObj(<<Member(W_sentHashes, JNum(<<"5">>))>>), 0),
    Stringify(JObj(<<Member(W_sentHashes, JStr(<<"1", "a">>))>>), 0),
    Stringify(JObj(<<Member(W_sentHashes, JNull)>>), 0),
    Stringify(JObj(<<Member(W_sentHashes, JObj(<<>>))>>), 0) }

InitialStoreFiles ==
  {AbsentFile, [exists |-> TRUE, readable |-> FALSE, text |-> <<>>]}
    \cup {TextFile(t) : t \in ForeignTexts}
    \cup {TextFile(SaveText(q)) : q \in SetsInOrder(1)}

InitStore ==
  /\ storeSet \in StoreSets
  /\ storeFile \in InitialStoreFiles
  /\ storeLoaded = <<>>
  /\ storePc = "start"
  /\ items = <<>>
  /\ snaps = <<>>
  /\ InitMonitor
  /\ InitAuto
  /\ InitNoText
  /\ InitLater

\* saveSentReports of the running monitor, the write succeeding
SaveStore ==
  /\ storePc = "start"
  /\ storeFile' = TextFile(SaveText(storeSet))
  /\ storePc' = "saved"
  /\ UNCHANGED <<storeSet, storeLoaded, monitorVars, autoVars, freshVars, hashVars,
                 laterVars>>

\* new CleanReportMonitor(): the constructor ends in loadSentReports
ConstructStore ==
  /\ storePc \in {"start", "saved"}
  /\ LET loaded == LoadFromFile(storeFile)
     IN /\ storeLoaded' = loaded.set
        /\ storePc' = IF loaded.threw THEN "crashed"
                      ELSE IF storePc = "saved" THEN "reloaded"
                      ELSE "constructed"
  /\ UNCHANGED <<storeSet, storeFile, monitorVars, autoVars, freshVars, hashVars,
                 laterVars>>

NextStore == SaveStore \/ ConstructStore

SpecStore == InitStore /\ [][NextStore]_vars

(***************************************************************************)
(* The fingerprint as a function of the card text                          *)
(***************************************************************************)
\* the longest run of spaces in the texts
MaxRun == 3

Spaces(n) == [i \in 1..n |-> " "]

W_bob == <<"b", "o", "b">>

\* the first sentences: two words with one to MaxRun spaces between them,
\* and two categories of the site
Heads ==
  {<<"x">> \o Spaces(n) \o <<"y">> : n \in 1..MaxRun}
    \cup {C_Phishing_Scam, C_Romance_Scam}

\* the bodies: a long one and one under 20 characters
Bodies ==
  {<<"m", "y", " ", "w", "a", "l", "l", "e", "t", " ", "w", "a", "s", " ",
     "d", "r", "a", "i", "n", "e", "d", " ", "b", "y", " ", "t", "h", "e", "m">>,
   <<"a", "l", "l", " ", "m", "y", " ", "c", "o", "i", "n", "s">>}

\* the ends: a recency phrase, after the submitter or alone
Tails ==
  {<<" ", "S">> \o SubSeq(W_submitted_by, 2, Len(W_submitted_by))
     \o <<" ">> \o W_bob \o <<" ">> \o p
     : p \in {Phrase(3, W_minutes), Phrase(2, W_hours)}}
    \cup {<<" ">> \o p : p \in {Phrase(3, W_minutes), Phrase(2, W_hours)}}

\* the card texts of the specification: first sentence, dot, body and end
TextClass ==
  {h \o <<".", " ">> \o b \o t : h \in Heads, b \in Bodies, t \in Tails}

FingerprintTable == Tabulate(TextClass, Fingerprint)

NoSnapshot ==
  [category |-> <<>>, cleanContent |-> <<>>, author |-> <<>>,
   hashInput |-> <<>>, contentHash |-> <<>>]

InitHash ==
  /\ items \in TextClass \X TextClass
  /\ snaps = <<NoSnapshot, NoSnapshot>>
  /\ storeSet = <<>>
  /\ storeFile = AbsentFile
  /\ storeLoaded = <<>>
  /\ storePc = "none"
  /\ InitMonitor
  /\ InitAuto
  /\ InitNoText
  /\ InitLater

\* createReportSnapshot on card k
SnapshotItem(k) ==
  /\ snaps[k] = NoSnapshot
  /\ snaps' = [snaps EXCEPT ![k] = FingerprintTable[items[k]]]
  /\ UNCHANGED <<items, monitorVars, autoVars, freshVars, storeVars, laterVars>>

NextHash == \E k \in 1..2 : SnapshotItem(k)

SpecHash == InitHash /\ [][NextHash]_vars

(***************************************************************************)
(* The reported addresses as a function of the text                        *)
(***************************************************************************)
\* how many addresses a text holds at most
MaxTokens == 3

\* a Bitcoin legacy address of 34 characters
AddressBase ==
  <<"1", "a", "b", "c", "3", "d", "e", "f", "g", "h", "i", "j", "k", "m", "n",
    "o", "p", "q", "r", "s", "t", "u", "v", "w", "x", "y", "z", "A", "B", "C",
    "D", "E", "F", "G">>

W_Reported == <<"R", "e", "p", "o", "r", "t", "e", "d">>

\* what a text holds: the address, two valid addresses of 26 characters
\* that are parts of it and not of each other, and the first of them with
\* the label of the next field of the page joined to it
Tokens ==
  {AddressBase, SubSeq(AddressBase, 1, 26), SubSeq(AddressBase, 5, 30),
   SubSeq(AddressBase, 1, 26) \o W_Reported}

RECURSIVE JoinTokens(_)
JoinTokens(ts) ==
  IF Len(ts) = 1 THEN ts[1] ELSE ts[1] \o <<" ">> \o JoinTokens(Tail(ts))

AddressContents ==
  UNION {{JoinTokens(ts) : ts \in [1..n -> Tokens]} : n \in 1..MaxTokens}

InitAddr ==
  /\ content \in AddressContents
  /\ allPotentialMatches = AllPotentialMatches(content)
  /\ matchIndex = 0
  /\ reportedAddresses = <<>>
  /\ processedPositions = <<>>
  /\ InitNoAmount
  /\ InitServer
  /\ InitMonitor
  /\ InitAuto
  /\ InitNoText
  /\ InitNoStore

\* one turn of the loop over allPotentialMatches
ProcessNextMatch ==
  /\ matchIndex < Len(allPotentialMatches)
  /\ matchIndex' = matchIndex + 1
  /\ reportedAddresses' =
       ProcessMatch(allPotentialMatches[matchIndex + 1], reportedAddresses,
                    processedPositions).reported
  /\ processedPositions' =
       ProcessMatch(allPotentialMatches[matchIndex + 1], reportedAddresses,
                    processedPositions).processed
  /\ UNCHANGED <<content, allPotentialMatches, monitorVars, autoVars, freshVars,
                 storeVars, hashVars, amountVars, serverVars>>

NextAddr == ProcessNextMatch

SpecAddr == InitAddr /\ [][NextAddr]_vars

(***************************************************************************)
(* The amount of one report: the card as page.evaluate read it, then the   *)
(* turn of the send loop that settles finalAmountLost.  The card is one    *)
(* text node, or text with every unit inside a <b> element; it holds no    *)
(* paragraph and no element of the classes that the four searches of the   *)
(* page script look for, so that script finds no amount in it.             *)
(***************************************************************************)
\* how many lines the text of a card has at most
MaxLines == 3

L_fee == <<"f", "e", "e", " ", "2", "0", " ", "U", "S", "D">>
L_Amount == <<"A", "m", "o", "u", "n", "t">>
L_lost == <<"l", "o", "s", "t">>
L_Amount_lost == L_Amount \o <<" ">> \o L_lost
L_500 == <<"5", "0", "0", " ", "U", "S", "D">>
L_same == L_Amount_lost \o <<" ">> \o L_500
L_900 == <<"9", "0", "0", " ", "U", "S", "D">>

CardLines == {L_fee, L_Amount, L_lost, L_Amount_lost, L_500, L_same}

RECURSIVE JoinLines(_)
JoinLines(ls) ==
  IF Len(ls) = 1 THEN ls[1] ELSE ls[1] \o <<"\n">> \o JoinLines(Tail(ls))

AmountTexts ==
  UNION {{JoinLines(ls) : ls \in [1..n -> CardLines]} : n \in 1..MaxLines}

\* what the detail page of the report gives: nothing, or an amount
DetailAmounts == {<<>>, L_900}

\* a unit at index i of s
UnitEnd(s, i) == IF StartsAt(s, i, <<"U", "S", "D">>) THEN i + 2 ELSE i - 1

\* element.innerHTML of a card with the text s
InnerHTML(s, marked) ==
  IF marked
  THEN ReplaceAll(s, UnitEnd, <<"<", "b", ">", "U", "S", "D", "<", "/", "b", ">">>)
  ELSE s

\* amountLostFromHTML as the page script returns it for such a card
AmountLostFromPage == <<>>

InitAmount ==
  /\ textContent \in AmountTexts
  /\ \E marked \in BOOLEAN : innerHTML = InnerHTML(textContent, marked)
  /\ amountLostFromHTML = AmountLostFromPage
  /\ finalAmountLost = <<>>
  /\ amountPc = "card"
  /\ InitNoAddr
  /\ InitServer
  /\ InitMonitor
  /\ InitAuto
  /\ InitNoText
  /\ InitNoStore

\* reportsData.push: the amount of the page script, else that of innerHTML
PushReportData ==
  /\ amountPc = "card"
  /\ amountPc' = "pushed"
  /\ amountLostFromHTML' =
       IF amountLostFromHTML # <<>> THEN amountLostFromHTML
       ELSE ExtractAmountFromInnerHTML(innerHTML)
  /\ UNCHANGED <<textContent, innerHTML, finalAmountLost, addrVars, monitorVars,
                 autoVars, freshVars, storeVars, hashVars, serverVars>>

\* the turn of the send loop for the report, up to finalAmountLost:
\* amountLost is what extractAmountLostFromDetailPage returned, <<>> also
\* when the click had failed and the detail page was not opened
SettleAmount(amountLost) ==
  /\ amountPc = "pushed"
  /\ amountPc' = "settled"
  /\ amountLostFromHTML' =
       IF amountLost # <<>> THEN amountLost ELSE amountLostFromHTML
  /\ finalAmountLost' =
       FinalAmountLost(IF amountLost # <<>> THEN amountLost ELSE amountLostFromHTML,
                       textContent)
  /\ UNCHANGED <<textContent, innerHTML, addrVars, monitorVars, autoVars,
                 freshVars, storeVars, hashVars, serverVars>>

NextAmount ==
  \/ PushReportData
  \/ \E amountLost \in DetailAmounts : SettleAmount(amountLost)

SpecAmount == InitAmount /\ [][NextAmount]_vars

(***************************************************************************)
(* The timers of the two monitors, and the checks of the server-side       *)
(* monitor (src/startup/monitor.ts).  The requests that the timers of the  *)
(* auto monitor post are served by the route of Spec and are not followed  *)
(* here.                                                                   *)
(***************************************************************************)
\* startAutoMonitor and stopAutoMonitor as the POST handler calls them
StartRequest ==
  /\ StartAutoMonitor
  /\ UNCHANGED serverVars

StopRequest ==
  /\ StopAutoMonitor
  /\ UNCHANGED serverVars

\* the 10 s timer of startAutoMonitor fires and posts its request
InitialTimer ==
  /\ pendingInitial > 0
  /\ pendingInitial' = pendingInitial - 1
  /\ UNCHANGED <<isMonitoring, monitorInterval, intervalTimers, monitorVars,
                 pureVars>>

\* startServerMonitor with the environment variables set (without them the
\* call returns at once): the monitor object is made if there is none and
\* a start is scheduled 5 s ahead
StartServerMonitor ==
  /\ pendingStart < MaxDelayed
  /\ globalMonitor' = TRUE
  /\ pendingStart' = pendingStart + 1
  /\ UNCHANGED <<isRunning, interval, serverTimers,
                 lastPageSignature, storedContent, serverCheckCount, clock,
                 checks, monitorVars, autoVars, freshVars, storeVars, hashVars,
                 addrVars, amountVars>>

\* checkForChanges up to its first await, in the free slot s
BeginCheck(s) ==
  /\ checks[s].pc = "idle"
  /\ serverCheckCount < MaxServerChecks
  /\ serverCheckCount' = serverCheckCount + 1
  /\ checks' = [checks EXCEPT ![s].pc = "fetching"]

\* the 5 s timer fires: ServerSideMonitor.start
DelayedStart(s) ==
  /\ pendingStart > 0
  /\ pendingStart' = pendingStart - 1
  /\ IF isRunning
     THEN UNCHANGED <<isRunning, interval, serverTimers, serverCheckCount, checks>>
     ELSE /\ isRunning' = TRUE
          /\ BeginCheck(s)
          /\ interval' = TRUE
          /\ serverTimers' = serverTimers + 1
  /\ UNCHANGED <<globalMonitor, lastPageSignature, storedContent,
                 clock, monitorVars, autoVars, freshVars, storeVars, hashVars,
                 addrVars, amountVars>>

\* a stop that leaves the interval registered
StopServerMonitor_keep ==
  /\ globalMonitor
  /\ isRunning
  /\ isRunning' = FALSE
  /\ UNCHANGED <<globalMonitor, pendingStart, interval, serverTimers,
                 lastPageSignature, storedContent, serverCheckCount, clock,
                 checks, monitorVars, autoVars, freshVars, storeVars, hashVars,
                 addrVars, amountVars>>

\* stopServerMonitor: ServerSideMonitor.stop of the monitor object, if any
StopServerMonitor ==
  /\ globalMonitor
  /\ isRunning
  /\ interval' = FALSE
  /\ serverTimers' = IF interval THEN serverTimers - 1 ELSE serverTimers
  /\ isRunning' = FALSE
  /\ UNCHANGED <<globalMonitor, pendingStart, lastPageSignature,
                 storedContent, serverCheckCount, clock, checks, monitorVars,
                 autoVars, freshVars, storeVars, hashVars, addrVars, amountVars>>

\* the 30 s interval of the server-side monitor fires
ServerTick(s) ==
  /\ serverTimers > 0
  /\ BeginCheck(s)
  /\ UNCHANGED <<globalMonitor, pendingStart, isRunning, interval,
                 serverTimers, lastPageSignature, storedContent, clock,
                 monitorVars, autoVars, freshVars, storeVars, hashVars, addrVars,
                 amountVars>>

\* fetchPageData throws: the catch block logs
ServerFetchFail(s) ==
  /\ checks[s].pc = "fetching"
  /\ checks' = [checks EXCEPT ![s] = IdleCheck]
  /\ UNCHANGED <<globalMonitor, pendingStart, isRunning, interval,
                 serverTimers, lastPageSignature, storedContent, serverCheckCount,
                 clock, monitorVars, autoVars, freshVars, storeVars, hashVars,
                 addrVars, amountVars>>

\* fetchPageData returns pageContent with its signature: the baseline of
\* the first check, else the comparison with lastPageSignature
ServerFetchOk(s, pageContent) ==
  /\ checks[s].pc = "fetching"
  /\ clock' = clock + 1
  /\ LET signature == CreatePageSignature(pageContent, DateNow(clock + 1))
         found == [pc |-> "alerting", content |-> pageContent,
                   signature |-> signature, previous |-> storedContent]
     IN IF serverCheckCount = 1
        THEN /\ lastPageSignature' = signature
             /\ storedContent' = pageContent
             /\ checks' = [checks EXCEPT ![s] = [found EXCEPT !.pc = "baseline"]]
        ELSE /\ UNCHANGED <<lastPageSignature, storedContent>>
             /\ checks' = [checks EXCEPT ![s] =
                             IF signature # lastPageSignature THEN found
                             ELSE [found EXCEPT !.pc = "same"]]
  /\ UNCHANGED <<globalMonitor, pendingStart, isRunning, interval,
                 serverTimers, serverCheckCount, monitorVars, autoVars, freshVars,
                 storeVars, hashVars, addrVars, amountVars>>

\* the "NEW REPORT DETECTED" message is sent: the signature is saved
AlertSent(s) ==
  /\ checks[s].pc = "alerting"
  /\ lastPageSignature' = checks[s].signature
  /\ storedContent' = checks[s].content
  /\ checks' = [checks EXCEPT ![s].pc = "alerted", ![s].previous = storedContent]
  /\ UNCHANGED <<globalMonitor, pendingStart, isRunning, interval,
                 serverTimers, serverCheckCount, clock, monitorVars, autoVars,
                 freshVars, storeVars, hashVars, addrVars, amountVars>>

\* checkForChanges ends: after the start message (sent or not), after the
\* alert, with no change seen, or in the catch block when the alert failed
EndCheck(s) ==
  /\ checks[s].pc \in {"baseline", "alerting", "alerted", "same"}
  /\ checks' = [checks EXCEPT ![s] = IdleCheck]
  /\ UNCHANGED <<globalMonitor, pendingStart, isRunning, interval,
                 serverTimers, lastPageSignature, storedContent, serverCheckCount,
                 clock, monitorVars, autoVars, freshVars, storeVars, hashVars,
                 addrVars, amountVars>>

InitTimers == InitMonitor /\ InitAuto /\ InitNoText /\ InitNoStore /\ InitLater

NextTimers ==
  \/ StartRequest
  \/ StopRequest
  \/ InitialTimer
  \/ StartServerMonitor
  \/ StopServerMonitor
  \/ \E s \in ServerSlots : DelayedStart(s)
  \/ \E s \in ServerSlots : ServerTick(s)
  \/ \E s \in ServerSlots : ServerFetchFail(s)
  \/ \E s \in ServerSlots : \E pageContent \in ServerPages : ServerFetchOk(s, pageContent)
  \/ \E s \in ServerSlots : AlertSent(s)
  \/ \E s \in ServerSlots : EndCheck(s)

SpecTimers == InitTimers /\ [][NextTimers]_vars

(***************************************************************************)
(* Properties                                                              *)
(***************************************************************************)
\* the execution has read the page (a fetched page has at least one card)
Fetched(x) == x.cur # <<>>

\* the positions of the page a notification has been sent or is being sent for
Notifying(x) ==
  x.emitted \cup (IF x.pc = "sending" THEN {x.newReports[x.idx]} ELSE {})

\* the hash of the card at position p of the page
HashAt(x, p) == x.cur[p].contentHash

FreshAt(x, p) == VeryFreshTable[x.cur[p].timeAgo]

\* C1: with cycles one after another, the first cycle after construction
\* that reads a page of N cards sends no report notification, and from the
\* moment the page is read to the end of the cycle all N hashes are in the
\* sent set.
C1_BaselineSuppression ==
  \A e \in Execs :
    LET x == execs[e]
    IN (x.num = 1 /\ Fetched(x))
         => /\ Notifying(x) = {}
            /\ x.newReports = <<>>
            /\ HashesOf(x.cur) \subseteq Range(sentReportHashes)

\* the first cycle has ended on a full page of distinct hashes (more than
\* a loaded file holds) with a card that is very fresh
C1_Witness ==
  \E e \in Execs :
    LET x == execs[e]
    IN /\ x.num = 1
       /\ x.pc = "closing"
       /\ Len(x.cur) = MaxCards
       /\ Cardinality(HashesOf(x.cur)) = MaxCards
       /\ \E p \in 1..Len(x.cur) : FreshAt(x, p)

\* C2: with cycles one after another, a cycle that reads a page with the
\* same set of hashes as the page the cycle right before it read selects
\* no report and sends no report notification, whatever the cycle before
\* did with them.
C2_NoOverlap ==
  \A e \in Execs :
    LET x == execs[e]
    IN (Fetched(x) /\ HashesOf(x.cur) \in prevCycle)
         => /\ Notifying(x) = {}
            /\ x.newReports = <<>>

\* a cycle has ended on the hash set of the cycle before it, with a very
\* fresh card on the page whose hash is not in the sent set
C2_Witness ==
  \E e \in Execs :
    LET x == execs[e]
    IN /\ x.pc = "closing"
       /\ Fetched(x)
       /\ HashesOf(x.cur) \in prevCycle
       /\ \E p \in 1..Len(x.cur) :
            /\ FreshAt(x, p)
            /\ HashAt(x, p) \notin Range(sentReportHashes)

\* the amounts of the model that are in USD or $ and come to at least 1
USDAtLeastOne == {A_500usd, A_dollar}

\* the position of the page the send loop dealt with last or is dealing with
\* (0: none yet)
LastTouched(x) ==
  IF x.newReports = <<>> \/ x.idx = 0 THEN 0
  ELSE IF x.pc = "loop"
       THEN (IF x.idx > 1 THEN x.newReports[x.idx - 1] ELSE 0)
       ELSE x.newReports[x.idx]

FailSafeTimeAgos ==
  UNION {IF \/ StartsAt(t, 1, W_pos)
            \/ Includes(t, W_hour)
            \/ Includes(t, W_day)
         THEN {t} ELSE {} : t \in TimeAgos}

PlaceholderTimeAgos ==
  UNION {IF StartsAt(t, 1, W_pos) THEN {t} ELSE {} : t \in TimeAgos}

\* C4: with cycles one after another, an item that is new and not very
\* fresh gets no notification in its cycle and its hash is in the sent set
\* for the rest of that cycle; while the hash stays in the sent set, no
\* later cycle sends a notification for it, whatever its recency phrase
\* says then.
C4_StalePermanentlySuppressed ==
  \A e \in Execs :
    LET x == execs[e]
    IN (x.num > 1 /\ Fetched(x))
         => /\ \A p \in x.stale :
                 /\ p \notin Notifying(x)
                 /\ HashAt(x, p) \in Range(sentReportHashes)
            /\ \A p \in Notifying(x) : HashAt(x, p) \notin staleRecorded

\* a cycle has ended on a page with a very fresh card whose hash an earlier
\* cycle recorded as not fresh and the cycle right before did not see
C4_Witness ==
  \E e \in Execs :
    LET x == execs[e]
    IN /\ x.pc = "closing"
       /\ x.result = "ok"
       /\ \E p \in 1..Len(x.cur) :
            /\ FreshAt(x, p)
            /\ HashAt(x, p) \in staleRecorded
            /\ prevCycle # {}
            /\ \A H \in prevCycle : HashAt(x, p) \notin H

\* the card text with the recency phrase "<n> <unit> ago"
TextOf(n, unitWord) == W_lead \o Phrase(n, unitWord) \o W_trail

\* C5 as stated: "49 seconds ago" and "1 minute ago" are very fresh;
\* "50 seconds ago", "10 minutes ago" and every "N minutes ago" with N from
\* 6 to 59 are not.
C5_FreshnessBoundary ==
  verdict # "none" =>
    /\ cardText = TextOf(49, W_seconds) => verdict = "fresh"
    /\ cardText = TextOf(50, W_seconds) => verdict = "stale"
    /\ cardText = TextOf(1, W_minute) => verdict = "fresh"
    /\ cardText = TextOf(10, W_minutes) => verdict = "stale"
    /\ \A n \in 6..59 : cardText = TextOf(n, W_minutes) => verdict = "stale"

\* C6 as stated: "N second(s) ago" ("second" for N = 1, "seconds" otherwise)
\* is very fresh exactly when N is from 1 to 49, three-digit N included.
C6_SecondsRange ==
  verdict # "none" =>
    \A n \in 0..MaxN :
      cardText = TextOf(n, IF n = 1 THEN W_second ELSE W_seconds)
        => ((verdict = "fresh") <=> (1 <= n /\ n <= 49))

\* C7: with cycles one after another, a new item whose recency string is
\* the position placeholder (no phrase could be read) or a phrase in hours
\* or days is not selected, gets no notification, and its hash is in the
\* sent set for the rest of the cycle.
C7_FailSafeFreshness ==
  \A e \in Execs :
    LET x == execs[e]
    IN (x.num > 1 /\ Fetched(x))
         => \A p \in x.isNew :
              x.cur[p].timeAgo \in FailSafeTimeAgos
                => /\ p \notin Range(x.newReports)
                   /\ p \notin Notifying(x)
                   /\ HashAt(x, p) \in Range(sentReportHashes)

\* a steady cycle has ended on a page with two new items, one without a
\* phrase and one with a phrase in hours or days
C7_Witness ==
  \E e \in Execs :
    LET x == execs[e]
    IN /\ x.num > 1
       /\ x.pc = "closing"
       /\ \E p, q \in x.isNew :
            /\ x.cur[p].timeAgo \in PlaceholderTimeAgos
            /\ x.cur[q].timeAgo \in FailSafeTimeAgos \ PlaceholderTimeAgos

\* C8 as stated: when the send of a report's notification fails, the hash
\* of that report is in the sent set all the same when the cycle ends.
C8_FailedSendCommitsHash ==
  \A e \in Execs :
    LET x == execs[e]
    IN (x.pc = "closing" /\ x.result = "fail" /\ x.newReports # <<>>)
         => HashAt(x, x.newReports[x.idx]) \in Range(sentReportHashes)

\* the next cycle to begin will be the first run of the monitor
NextIsBaseline == checkCount = 0

\* C9 as stated: a cycle whose fetch fails returns failure and leaves the
\* sent set, the last snapshot and the file as they were, and the cycle
\* after it runs as if the failed one had not happened: it is the baseline
\* run exactly if the failed one would have been.
C9_FetchFailureFrame ==
  [][\A e \in Execs :
       (execs[e].pc = "fetching" /\ execs'[e].pc = "closing"
          /\ ~Fetched(execs'[e]))
         => /\ execs'[e].result = "fail"
            /\ sentReportHashes' = sentReportHashes
            /\ lastReportHashes' = lastReportHashes
            /\ sentReportsFile' = sentReportsFile
            /\ NextIsBaseline' = (execs[e].num = 1)]_vars

\* C10 as stated: at most one execution of checkForNewReports is in flight
\* at any time.
C10_SingleFlight == Cardinality({e \in Execs : InFlight(e)}) <= 1

\* C11 as stated: after a stop no scheduled cycle starts until a later
\* start; in particular the delayed initial check of an earlier start
\* begins a cycle only while the monitor is started.
C11_StopIsEffective ==
  [][pendingInitial' < pendingInitial => isMonitoring]_vars

\* a cycle that has ended with success has saved the set it ends with
SavedAtEnd(x) ==
  (x.pc = "closing" /\ x.result = "ok")
    => sentReportsFile = FileOf(sentReportHashes)

\* C12: a stop leaves every execution of checkForNewReports, the sent set,
\* the last snapshot and the file as they are; an execution in flight when
\* the stop is processed goes on to its end, and when it ends with success
\* the file holds the sent set it ends with.
C12_GracefulCancellation ==
  /\ [][(isMonitoring /\ ~isMonitoring')
          => /\ \A e \in Execs :
                  execs'[e] = [execs[e] EXCEPT !.overStop = execs'[e].overStop]
             /\ UNCHANGED <<sentReportHashes, lastReportHashes,
                            sentReportsFile>>]_vars
  /\ [](\A e \in Execs : execs[e].overStop => SavedAtEnd(execs[e]))
  /\ \A e \in Execs :
       (execs[e].overStop /\ execs[e].pc # "closing")
         ~> (execs[e].overStop /\ execs[e].pc = "closing")

\* a cycle that was selecting and sending when the monitor was stopped has
\* ended with success, a notification sent and the file written
C12_Witness ==
  \E e \in Execs :
    LET x == execs[e]
    IN /\ x.overStop
       /\ ~isMonitoring
       /\ x.pc = "closing"
       /\ x.result = "ok"
       /\ x.emitted # {}
       /\ sentReportsFile = FileOf(sentReportHashes)

\* the step ends a steady cycle of execution e with success
EndsSteadyOk(e) ==
  /\ execs[e].pc # "closing"
  /\ execs'[e].pc = "closing"
  /\ execs'[e].result = "ok"
  /\ execs'[e].num > 1

\* new is what is left of old followed by hashes old did not hold, with
\* dropped hashes dropped from the front of old
CutFromFront(old, new, dropped) ==
  /\ dropped <= Len(old)
  /\ Len(new) >= Len(old) - dropped
  /\ \A i \in 1..(Len(old) - dropped) : new[i] = old[dropped + i]
  /\ \A i \in (Len(old) - dropped + 1)..Len(new) : new[i] \notin Range(old)

C14_BoundedStore ==
  \A e \in Execs :
    execs[e].pc = "closing"
      => /\ Len(sentReportHashes) <= SentCap
         /\ Len(sentReportsFile.sentHashes) <= SentCap

\* C15: for every set of up to MaxStored hashes, in every insertion order,
\* the monitor constructed after saveSentReports has written the set holds
\* exactly the hashes of the set, whatever the file held before.
C15_PersistenceRoundTrip ==
  storePc = "reloaded"
    => /\ Range(storeLoaded) = Range(storeSet)
       /\ Len(storeLoaded) = Len(storeSet)

\* a set of MaxStored hashes has been saved over a file and loaded again
C15_Witness ==
  /\ storePc = "reloaded"
  /\ Len(storeSet) = MaxStored
  /\ Len(storeLoaded) = MaxStored

\* the file is absent, or its text is one of those the program did not
\* write: no JSON, or JSON without an array under sentHashes
AbsentOrForeign(file) ==
  file = AbsentFile \/ (file.readable /\ file.text \in ForeignTexts)

\* C16: constructing the monitor never fails, and on a file that is absent,
\* is not valid JSON, or is JSON without an array-valued sentHashes the
\* constructed monitor starts with the empty set.
C16_TolerantLoad ==
  /\ storePc # "crashed"
  /\ (storePc = "constructed" /\ AbsentOrForeign(storeFile))
       => storeLoaded = <<>>

\* a monitor has been constructed on a file whose write was cut short
C16_Witness ==
  /\ storePc = "constructed"
  /\ storeFile.exists
  /\ storeFile.text = CutShort(SaveText(<<JStr(<<"1", "a">>)>>))
  /\ storeLoaded = <<>>

\* the positions of the page whose hashes the cycle has added to the sent set
AddedBy(x) == x.stale \cup x.filtered \cup x.emitted

\* C17 as stated: at the end of every cycle that added a hash to the sent
\* set, a failed notification in it or not, the file holds the sent set:
\* sentHashes is the set and totalSent its size.
C17_CommitBeforeNextCycle ==
  \A e \in Execs :
    LET x == execs[e]
    IN (x.pc = "closing" /\ Fetched(x) /\ (x.num = 1 \/ AddedBy(x) # {}))
         => /\ sentReportsFile.exists
            /\ sentReportsFile.sentHashes = sentReportHashes
            /\ sentReportsFile.totalSent = Len(sentReportHashes)

\* C18: a write of the file that fails does not fail the cycle (the run
\* goes on to the start-up message, or the cycle ends with success); the
\* hashes a cycle has added are in the sent set when it ends with success,
\* whether or not the file took them; and no notification is begun for a
\* hash that is in the sent set, whether or not the file holds it.
C18_PersistenceFailureNotFatal ==
  /\ [][writeFails' > writeFails
          => \A e \in Execs :
               execs'[e] # execs[e]
                 => \/ execs'[e].pc = "startup"
                    \/ execs'[e].pc = "closing" /\ execs'[e].result = "ok"]_vars
  /\ [](\A e \in Execs :
          LET x == execs[e]
          IN (x.pc = "closing" /\ x.result = "ok" /\ x.num > 1)
               => \A p \in AddedBy(x) : HashAt(x, p) \in Range(sentReportHashes))
  /\ [][\A e \in Execs :
          (execs[e].pc # "sending" /\ execs'[e].pc = "sending")
            => HashAt(execs'[e], execs'[e].newReports[execs'[e].idx])
                 \notin Range(sentReportHashes)]_vars

\* a cycle has ended with success, nothing selected, on a very fresh card
\* whose hash is in the sent set but not in the file (the write that should
\* have stored it failed) and was not on the page of the cycle before
C18_Witness ==
  \E e \in Execs :
    LET x == execs[e]
    IN /\ x.pc = "closing"
       /\ x.result = "ok"
       /\ writeFails > 0
       /\ x.newReports = <<>>
       /\ \E p \in 1..Len(x.cur) :
            /\ FreshAt(x, p)
            /\ HashAt(x, p) \in Range(sentReportHashes)
            /\ HashAt(x, p) \notin Range(sentReportsFile.sentHashes)
            /\ prevCycle # {}
            /\ \A H \in prevCycle : HashAt(x, p) \notin H

\* a text with every recency phrase replaced by one mark and every run of
\* white space by one space
Skeleton(text) == ReplaceAll(ReplaceAll(text, TimeEnd, <<"~">>), WhiteEnd, <<" ">>)

SkeletonTable == Tabulate(TextClass, Skeleton)

BothSnapshots == snaps # <<>> /\ snaps[1] # NoSnapshot /\ snaps[2] # NoSnapshot

\* C19 as stated: two card texts that differ only in the length of their
\* white space runs or in their recency phrase get the same content hash.
C19_FingerprintIdempotence ==
  (BothSnapshots /\ SkeletonTable[items[1]] = SkeletonTable[items[2]])
    => snaps[1].contentHash = snaps[2].contentHash

\* C20 as stated: two cards of different category with the same cleaned
\* body and author get different content hashes, two cards of different
\* cleaned body get different content hashes, and the text that is hashed
\* is category, cleaned body and author in that order.
C20_FingerprintSensitivity ==
  BothSnapshots
    => /\ (/\ snaps[1].category # snaps[2].category
           /\ snaps[1].cleanContent = snaps[2].cleanContent
           /\ snaps[1].author = snaps[2].author)
            => snaps[1].contentHash # snaps[2].contentHash
       /\ snaps[1].cleanContent # snaps[2].cleanContent
            => snaps[1].contentHash # snaps[2].contentHash
       /\ \A k \in 1..2 :
            snaps[k].hashInput
              = snaps[k].category \o snaps[k].cleanContent \o snaps[k].author

\* C21: no notification is begun or emitted for a hash that the durable
\* file held when the process started, for as long as the cap has not cut
\* the hash from the sent set.
C21_DedupAcrossRestarts ==
  \A e \in Execs :
    \A p \in Notifying(execs[e]) : HashAt(execs[e], p) \notin durableHashes

\* a steady cycle of a restarted process has ended with success after a
\* notification, on a page with a very fresh card whose hash the file held
\* at the start, which was not on the page of the cycle before and was not
\* notified
C21_Witness ==
  \E e \in Execs :
    LET x == execs[e]
    IN /\ x.pc = "closing"
       /\ x.result = "ok"
       /\ x.num > 1
       /\ x.emitted # {}
       /\ prevCycle # {}
       /\ \E p \in 1..Len(x.cur) :
            /\ FreshAt(x, p)
            /\ HashAt(x, p) \in durableHashes
            /\ p \notin Notifying(x)
            /\ \A H \in prevCycle : HashAt(x, p) \notin H

\* the loop over allPotentialMatches has ended
LoopEnded == allPotentialMatches # <<>> /\ matchIndex = Len(allPotentialMatches)

\* C22 as stated: when the loop has ended, no address of the list is equal
\* to another address of the list or a part of it.
C22_AddressDefragmentation ==
  LoopEnded
    => \A i, j \in 1..Len(reportedAddresses) :
         i # j => ~Includes(reportedAddresses[j], reportedAddresses[i])

\* the indices at which a match of /amount\s+lost/i ends in s
AnchorEnds(s) == {AmountLostEnd(s, i) : i \in 1..Len(s)} \ {0}

\* the first USD amount of s that starts after index e, <<>> for none
FirstUsdAfter(s, e) ==
  LET after == {i \in UsdStarts(s, FALSE) : i > e}
  IN IF after = {} THEN <<>>
     ELSE Trim(SubSeq(s, Least(after), UsdEnd(s, Least(after), FALSE)))

\* C23 as stated: when the text of the report holds "amount lost" with a
\* USD amount after it, the amount settled for the report is the first USD
\* amount after the anchor; when the text holds no anchor, it is the last
\* USD amount of the text.
C23_AmountPrecedence ==
  amountPc = "settled" =>
    /\ (\E e \in AnchorEnds(textContent) : FirstUsdAfter(textContent, e) # <<>>)
         => \E e \in AnchorEnds(textContent) :
              /\ FirstUsdAfter(textContent, e) # <<>>
              /\ finalAmountLost = FirstUsdAfter(textContent, e)
    /\ AnchorEnds(textContent) = {}
         => finalAmountLost = LastUsd(textContent, FALSE)

\* C24 as stated: a notification is emitted only for a hash for which none
\* has been emitted before (a hash that the cap has cut from the sent set
\* since its notification counts as not notified).
C24_AtMostOnce ==
  [][\A e \in Execs :
       (execs[e].pc = "sending" /\ execs'[e].emitted # execs[e].emitted)
         => CurrentNew(execs[e]).contentHash \notin notifiedHashes]_vars

\* C25 as stated: the execution that made checkCount 1 takes the baseline
\* branch once it has read its page, whatever other executions have begun
\* in the meantime, and begins no notification.
C25_BaselineUnderOverlap ==
  \A e \in Execs :
    (execs[e].num = 1 /\ Fetched(execs[e]))
      => execs[e].baseline /\ Notifying(execs[e]) = {}

\* the hashes of the reports that execution e has selected for notification
SelectedBy(e) ==
  {HashAt(execs[e], p) : p \in Range(execs[e].newReports)}

\* C26 as stated: with cycles that overlap, on pages that hold a hash once,
\* a notification is emitted only for a hash that has not been notified
\* before and that no other execution in flight has selected.
C26_NoDuplicateUnderOverlap ==
  [][\A e \in Execs :
       (execs[e].pc = "sending" /\ execs'[e].emitted # execs[e].emitted)
         => /\ CurrentNew(execs[e]).contentHash \notin notifiedHashes
            /\ \A f \in Execs \ {e} :
                 CurrentNew(execs[e]).contentHash \notin SelectedBy(f)]_vars

\* C27 as stated: the first cycle of the monitor that reads a page (no
\* cycle before it has, so the last snapshot is still empty) is the
\* baseline, whatever number it has: it selects no report and every hash
\* of its page is in the sent set.
C27_BaselineAfterFailedFirst ==
  [][\A e \in Execs :
       (execs[e].pc = "fetching" /\ Fetched(execs'[e]) /\ lastReportHashes = {})
         => /\ execs'[e].baseline
            /\ execs'[e].newReports = <<>>
            /\ HashesOf(execs'[e].cur) \subseteq Range(sentReportHashes')]_vars

\* C28 as stated, for the reports other than the one whose send failed:
\* when a cycle ends after a failed send, every other report it selected
\* has been notified or filtered, or its hash is in the sent set.
C28_SkipAndContinue ==
  \A e \in Execs :
    LET x == execs[e]
    IN (x.pc = "closing" /\ x.result = "fail" /\ x.newReports # <<>>)
         => \A p \in Range(x.newReports) \ {x.newReports[x.idx]} :
              \/ p \in x.emitted \cup x.filtered
              \/ HashAt(x, p) \in Range(sentReportHashes)

\* C29: each monitor has at most one interval timer registered, and its
\* running flag (isMonitoring, isRunning) is true exactly when one is.
C29_SingleTimer ==
  /\ intervalTimers <= 1
  /\ isMonitoring <=> intervalTimers = 1
  /\ isMonitoring <=> monitorInterval
  /\ serverTimers <= 1
  /\ isRunning <=> serverTimers = 1
  /\ isRunning <=> interval

\* both monitors run, the auto monitor after a start, a stop and a second
\* start, the server-side monitor with a further delayed start pending
C29_Witness ==
  /\ isMonitoring
  /\ pendingInitial = 2
  /\ isRunning
  /\ pendingStart > 0
  /\ serverCheckCount > 1

\* C30 as stated: after the baseline an alert is sent only for a page
\* content that differs from the content of the last check whose signature
\* was stored.
C30_ChangeDetection ==
  \A s \in ServerSlots :
    checks[s].pc = "alerted" => checks[s].content # checks[s].previous

====
